---------------------------- MODULE Spec2Model ----------------------------
(***************************************************************************)
(* Media intake and export pipeline of the eduai client: the image         *)
(* validator and normaliser (imageUtils.ts), the storage orchestrator      *)
(* (storageUtils.ts), the two components that drive intake (ProjectStepper *)
(* and MediaUploader), the caption generators, the AutoLayout gallery and   *)
(* the document and slide exports (exportUtils).                           *)
(*                                                                         *)
(* Strings are sequences of one-character strings, so that toLowerCase,    *)
(* includes and the filename checks are computed character by character.   *)
(***************************************************************************)
EXTENDS Integers, Sequences, FiniteSets, TLC

VARIABLES
  host,        \* which component owns the media list: "stepper" | "workspace"
  cloud,       \* storageUtils.ts: supabase !== null
  now,         \* Date.now()
  formData,    \* the owning component's formData (subject, projectIdea)
  mediaFiles,  \* the owning component's mediaFiles state
  mounted,     \* the owning component is mounted
  blobs,       \* blobs[k]: number of URL.revokeObjectURL calls on blob URL k
  calls,       \* the intake calls started so far (processFiles invocations)
  shown,       \* setErrors: the error messages currently shown
  layout,      \* AutoLayout state: autoPlace, draggedItem, editingAlt, tempAltText
  last,        \* the last handler that ran, with what it was given
  pdf,         \* the run of exportToPDF
  pptx,        \* the run of exportToPPTX
  arg,         \* input of the function under test (pure-function harness)
  ret,         \* its result
  stepper,     \* ProjectStepper: currentStep and the calls made of onGenerate
  dash         \* Dashboard: aiOutput, isExporting, the exports in flight, alerts, downloads

vars == <<host, cloud, now, formData, mediaFiles, mounted, blobs, calls, shown,
          layout, last, pdf, pptx, arg, ret, stepper, dash>>

sessionVars == <<host, cloud, now, formData, mediaFiles, mounted, blobs, calls,
                 shown, layout>>

\* null and undefined, for ids, strings and results alike
Null == <<>>

Min(a, b) == IF a < b THEN a ELSE b
Max(a, b) == IF a > b THEN a ELSE b

Range(s) == {s[k] : k \in 1..Len(s)}

(***************************************************************************)
(* Strings                                                                 *)
(***************************************************************************)
UpperAlpha ==
  <<"A","B","C","D","E","F","G","H","I","J","K","L","M",
    "N","O","P","Q","R","S","T","U","V","W","X","Y","Z">>
LowerAlpha ==
  <<"a","b","c","d","e","f","g","h","i","j","k","l","m",
    "n","o","p","q","r","s","t","u","v","w","x","y","z">>

LowerChar(c) ==
  IF \E k \in 1..Len(UpperAlpha) : UpperAlpha[k] = c
  THEN LowerAlpha[CHOOSE k \in 1..Len(UpperAlpha) : UpperAlpha[k] = c]
  ELSE c

UpperChar(c) ==
  IF \E k \in 1..Len(LowerAlpha) : LowerAlpha[k] = c
  THEN UpperAlpha[CHOOSE k \in 1..Len(LowerAlpha) : LowerAlpha[k] = c]
  ELSE c

\* String.prototype.toLowerCase
ToLowerCase(s) == [k \in 1..Len(s) |-> LowerChar(s[k])]

\* String.prototype.includes
Includes(s, sub) ==
  \E k \in 0..(Len(s) - Len(sub)) : SubSeq(s, k + 1, k + Len(sub)) = sub

RECURSIVE Concat(_)
\* the concatenation of a sequence of strings
Concat(ss) == IF ss = <<>> THEN <<>> ELSE Head(ss) \o Concat(Tail(ss))

(***************************************************************************)
(* AutoLayout.getSectionPlacement                                          *)
(***************************************************************************)
KwIntro      == <<"i","n","t","r","o">>
KwBackground == <<"b","a","c","k","g","r","o","u","n","d">>
KwOverview   == <<"o","v","e","r","v","i","e","w">>
KwMethod     == <<"m","e","t","h","o","d">>
KwApproach   == <<"a","p","p","r","o","a","c","h">>
KwProcess    == <<"p","r","o","c","e","s","s">>
KwResult     == <<"r","e","s","u","l","t">>
KwData       == <<"d","a","t","a">>
KwChart      == <<"c","h","a","r","t">>
KwGraph      == <<"g","r","a","p","h">>

IntroKeywords  == {KwIntro, KwBackground, KwOverview}
MethodKeywords == {KwMethod, KwApproach, KwProcess}
ResultKeywords == {KwResult, KwData, KwChart, KwGraph}

\* the methodology branch is tested before the introduction branch
GetSectionPlacementMethodFirst(caption) ==
  LET lowerCaption == ToLowerCase(caption) IN
  IF \E kw \in MethodKeywords : Includes(lowerCaption, kw) THEN "methodology"
  ELSE IF \E kw \in IntroKeywords : Includes(lowerCaption, kw) THEN "introduction"
  ELSE "results"

\* the caption is matched as it is written
GetSectionPlacementCaseSensitive(caption) ==
  IF \E kw \in IntroKeywords : Includes(caption, kw) THEN "introduction"
  ELSE IF \E kw \in MethodKeywords : Includes(caption, kw) THEN "methodology"
  ELSE "results"

\* the results branch returns what the branch above it returns
GetSectionPlacementCopiedReturn(caption) ==
  LET lowerCaption == ToLowerCase(caption) IN
  IF \E kw \in IntroKeywords : Includes(lowerCaption, kw) THEN "introduction"
  ELSE IF \E kw \in MethodKeywords : Includes(lowerCaption, kw) THEN "methodology"
  ELSE IF \E kw \in ResultKeywords : Includes(lowerCaption, kw) THEN "methodology"
  ELSE "results"

GetSectionPlacement(caption) ==
  LET lowerCaption == ToLowerCase(caption) IN
  IF \E kw \in IntroKeywords : Includes(lowerCaption, kw) THEN "introduction"
  ELSE IF \E kw \in MethodKeywords : Includes(lowerCaption, kw) THEN "methodology"
  ELSE IF \E kw \in ResultKeywords : Includes(lowerCaption, kw) THEN "results"
  ELSE "results"

(***************************************************************************)
(* Files offered to the intake.  A File is its name, declared MIME type    *)
(* and byte length; naturalWidth/naturalHeight and decodes describe what   *)
(* the browser finds when it decodes the payload.                          *)
(***************************************************************************)
NamePng    == <<"a",".","p","n","g">>
NameJpg    == <<"b","_","c",".","j","p","g">>
NameExePng == <<"x",".","E","x","e",".","p","n","g">>
NameBat    == <<"y",".","b","a","t">>

\* imageUtils.ts: ALLOWED_MIME_TYPES
ALLOWED_MIME_TYPES == {"image/jpeg", "image/jpg", "image/png", "image/webp"}
KiB == 1024
\* imageUtils.ts: MAX_FILE_SIZE = 10 * 1024 * 1024
MAX_FILE_SIZE == 10 * KiB * KiB
MAX_WIDTH == 2000
\* validateImageFile: suspiciousExtensions
SuspiciousExtensions ==
  { <<".","e","x","e">>, <<".","b","a","t">>, <<".","c","m","d">>,
    <<".","s","c","r">>, <<".","c","o","m">>, <<".","p","i","f">> }

MkFile(name, type, size, w, h, decodes) ==
  [name |-> name, type |-> type, size |-> size,
   naturalWidth |-> w, naturalHeight |-> h, decodes |-> decodes]

FileGood      == MkFile(NamePng, "image/png", 1000, 800, 600, TRUE)
FileAtLimits  == MkFile(NameJpg, "image/jpeg", MAX_FILE_SIZE, MAX_WIDTH, 1500, TRUE)
FileWide      == MkFile(NamePng, "image/webp", 1000, 3000, 1000, TRUE)
FileHalfway   == MkFile(NameJpg, "image/jpg", 1000, 2080, 1027, TRUE)
FileSliver    == MkFile(NamePng, "image/png", 1000, 5000, 1, TRUE)
FileOversized == MkFile(NamePng, "image/png", MAX_FILE_SIZE + 1, 800, 600, TRUE)
FileGif       == MkFile(NamePng, "image/gif", 1000, 800, 600, TRUE)
FileExeName   == MkFile(NameExePng, "image/png", 1000, 800, 600, TRUE)
FileBatName   == MkFile(NameBat, "image/jpeg", 1000, 3000, 1500, TRUE)
FileCorrupt   == MkFile(NameJpg, "image/png", 1000, 0, 0, FALSE)
FileBigGif    == MkFile(NameExePng, "image/gif", MAX_FILE_SIZE + 1, 3000, 1000, TRUE)

(***************************************************************************)
(* imageUtils.validateImageFile.  A message that names a file is kept as   *)
(* the file name and the text before and after it.                         *)
(***************************************************************************)
Message(head, name, tail) == [head |-> head, name |-> name, tail |-> tail]

Accepted == [isValid |-> TRUE]
Rejected(msg) == [isValid |-> FALSE, error |-> msg]

HasSuspiciousExtension(file) ==
  LET fileName == ToLowerCase(file.name) IN
  \E ext \in SuspiciousExtensions : Includes(fileName, ext)

ValidateImageFile(file) ==
  IF file.size > MAX_FILE_SIZE
  THEN Rejected(Message("File \"", file.name, "\" is too large. Maximum size is 10MB."))
  ELSE IF file.type \notin ALLOWED_MIME_TYPES
  THEN Rejected(Message("File \"", file.name, "\" has unsupported format. Only JPG, PNG, and WebP are allowed."))
  ELSE IF HasSuspiciousExtension(file)
  THEN Rejected(Message("File \"", file.name, "\" appears to be suspicious and cannot be uploaded."))
  ELSE Accepted

(***************************************************************************)
(* imageUtils.processImage.  aspectRatio is the pair of the two numbers    *)
(* divided.  Math.round(MAX_WIDTH / aspectRatio) is computed in doubles:   *)
(* when 2000 * h / w lies exactly halfway between two integers the two     *)
(* roundings of the divisions decide which neighbour comes out (2080x1027  *)
(* gives 987, 4000x1 gives 1), so both are outcomes there.                 *)
(***************************************************************************)
Ratio(n, d) == [num |-> n, den |-> d]

\* Math.round(num / den): the nearest integer, halves upwards
RoundHalfUp(num, den) == (2 * num + den) \div (2 * den)

IsHalfway(num, den) == (2 * num) % (2 * den) = den

ScaledHeights(w, h) ==
  IF IsHalfway(MAX_WIDTH * h, w)
  THEN {(MAX_WIDTH * h) \div w, (MAX_WIDTH * h) \div w + 1}
  ELSE {RoundHalfUp(MAX_WIDTH * h, w)}

ProcessedFile(file) == [name |-> file.name, type |-> file.type]

Resolved(v) == [ok |-> TRUE, value |-> v]
Failed(msg) == [ok |-> FALSE, error |-> msg]

\* canvas.toBlob yields null for a canvas without pixels
ToBlobIsNull(w, h) == w = 0 \/ h = 0

ImageResult(file, w, h) ==
  IF ToBlobIsNull(w, h)
  THEN Failed(<<"Failed to process image">>)
  ELSE Resolved([file |-> ProcessedFile(file), width |-> w, height |-> h,
                 aspectRatio |-> Ratio(w, h)])

\* the set of results the promise of processImage can settle with
ProcessImage(file) ==
  IF ~file.decodes
  THEN {Failed(Message("Failed to load image: ", file.name, ""))}
  ELSE IF file.naturalWidth > MAX_WIDTH
  THEN {ImageResult(file, MAX_WIDTH, nh) :
          nh \in ScaledHeights(file.naturalWidth, file.naturalHeight)}
  ELSE {ImageResult(file, file.naturalWidth, file.naturalHeight)}

\* imageUtils.moderateImage: the stub approves every image
ModerateImage(file) == [approved |-> TRUE]

(***************************************************************************)
(* Caption generator: generateImageMeta of ProjectStepper and of           *)
(* MediaUploader (the same code but for the context fields read).          *)
(***************************************************************************)
LastIndexOf(s, ch) ==
  IF \E k \in 1..Len(s) : s[k] = ch
  THEN CHOOSE k \in 1..Len(s) : s[k] = ch /\ \A m \in (k + 1)..Len(s) : s[m] # ch
  ELSE 0

\* filename.replace(/\.[^/.]+$/, "")
StripExtension(s) ==
  LET dot == LastIndexOf(s, ".") IN
  IF dot > 0 /\ dot < Len(s) /\ \A m \in (dot + 1)..Len(s) : s[m] # "/"
  THEN SubSeq(s, 1, dot - 1)
  ELSE s

\* only the hyphens are replaced
SpaceSeparatorsHyphenOnly(s) == [k \in 1..Len(s) |-> IF s[k] = "-" THEN " " ELSE s[k]]

\* .replace(/[-_]/g, ' ')
SpaceSeparators(s) == [k \in 1..Len(s) |-> IF s[k] \in {"-", "_"} THEN " " ELSE s[k]]

RECURSIVE Split(_, _)
\* String.prototype.split(sep) for a one-character separator
Split(s, sep) ==
  IF \E k \in 1..Len(s) : s[k] = sep
  THEN LET first == CHOOSE k \in 1..Len(s) : s[k] = sep /\ \A m \in 1..(k - 1) : s[m] # sep
       IN <<SubSeq(s, 1, first - 1)>> \o Split(SubSeq(s, first + 1, Len(s)), sep)
  ELSE <<s>>

RECURSIVE Join(_, _)
\* Array.prototype.join
Join(ws, sep) ==
  IF ws = <<>> THEN <<>>
  ELSE IF Len(ws) = 1 THEN ws[1]
  ELSE ws[1] \o sep \o Join(Tail(ws), sep)

\* word.charAt(0).toUpperCase() + word.slice(1).toLowerCase()
Capitalize(word) ==
  [k \in 1..Len(word) |-> IF k = 1 THEN UpperChar(word[k]) ELSE LowerChar(word[k])]

\* a || b on strings: the empty string is falsy
OrElse(a, b) == IF a # <<>> THEN a ELSE b

CaptionLimit == 60

CaptionOf(filename, subject) ==
  LET cleanFilename == SpaceSeparators(StripExtension(filename))
      split == Split(cleanFilename, " ")
      words == [k \in 1..Len(split) |-> Capitalize(split[k])]
      caption == Join(words, <<" ">>) \o <<" ","i","n"," ">> \o subject \o <<" ","R","e","s","e","a","r","c","h">>
  IN IF Len(caption) > CaptionLimit
     THEN Join(SubSeq(words, 1, Min(3, Len(words))), <<" ">>) \o <<" ","R","e","s","e","a","r","c","h"," ","V","i","s","u","a","l">>
     ELSE caption

AltOf(filename, projectTitle, subject) ==
  LET cleanFilename == SpaceSeparators(StripExtension(filename)) IN
  <<"V","i","s","u","a","l"," ","r","e","p","r","e","s","e","n","t","a","t","i","o","n"," ","o","f"," ">> \o ToLowerCase(cleanFilename) \o <<" ","r","e","l","a","t","e","d"," ","t","o"," ">>
    \o ToLowerCase(projectTitle) \o <<" ","r","e","s","e","a","r","c","h"," ","i","n"," ">> \o ToLowerCase(subject)

\* ProjectStepper.generateImageMeta, with the projectContext processFiles builds
StepperImageMeta(filename, form) ==
  LET projectTitle == OrElse(form.projectIdea, <<"A","c","a","d","e","m","i","c"," ","P","r","o","j","e","c","t">>)
      subject == OrElse(form.subject, <<"R","e","s","e","a","r","c","h">>)
  IN [caption |-> CaptionOf(filename, subject),
      alt |-> AltOf(filename, projectTitle, subject)]

\* MediaUploader.generateImageMeta, with projectContext = the workspace's formData
UploaderImageMeta(filename, form) ==
  LET projectTitle == OrElse(form.projectIdea, <<"A","c","a","d","e","m","i","c"," ","P","r","o","j","e","c","t">>)
      subject == OrElse(form.subject, <<"R","e","s","e","a","r","c","h">>)
  IN [caption |-> CaptionOf(filename, subject),
      alt |-> AltOf(filename, projectTitle, subject)]

\* Dashboard.generateImageMeta, with the projectContext handleFileUpload builds
DashboardImageMeta(filename, form) ==
  LET projectTitle == OrElse(form.projectIdea, <<"A","c","a","d","e","m","i","c"," ","P","r","o","j","e","c","t">>)
      subject == OrElse(form.subject, <<"R","e","s","e","a","r","c","h">>)
      cleanFilename == SpaceSeparators(StripExtension(filename))
      split == Split(cleanFilename, " ")
      words == [k \in 1..Len(split) |-> Capitalize(split[k])]
  IN [caption |-> Join(words, <<" ">>) \o <<" ","f","o","r"," ">> \o subject \o <<" ","A","n","a","l","y","s","i","s">>,
      alt |-> <<"A","c","a","d","e","m","i","c"," ","v","i","s","u","a","l"," ","s","h","o","w","i","n","g"," ">> \o ToLowerCase(cleanFilename)
              \o <<" ","d","a","t","a"," ","r","e","l","a","t","e","d"," ","t","o"," ">> \o ToLowerCase(projectTitle) \o <<" ","i","n"," ">>
              \o ToLowerCase(subject) \o <<" ","r","e","s","e","a","r","c","h">>]

FormBiology == [projectIdea |-> <<"C","e","l","l","s">>, subject |-> <<"B","i","o","l","o","g","y">>, steps |-> <<>>]

(***************************************************************************)
(* Locators and media entries.  A blob URL is the k-th URL made by         *)
(* URL.createObjectURL; blobs[k] counts the revokeObjectURL calls on it.   *)
(***************************************************************************)
EmptyUrl     == [scheme |-> "", n |-> <<>>]
BlobUrl(k)   == [scheme |-> "blob", n |-> <<k>>]
\* the public URL of the object stored for an upload
PublicUrl(id) == [scheme |-> "https", n |-> id]

IsBlob(url) == url.scheme = "blob"

\* the MediaFile object literal of processAndUploadFiles
NewMediaFile(fileId, processedImage) ==
  [id |-> fileId, src |-> EmptyUrl,
   width |-> processedImage.width, height |-> processedImage.height,
   aspectRatio |-> processedImage.aspectRatio, file |-> processedImage.file,
   uploadProgress |-> 0, isUploading |-> TRUE, cloudUrl |-> EmptyUrl,
   caption |-> <<>>, alt |-> <<>>]

\* the number of revokeObjectURL calls recorded per URL saturates here
RevokeCap == 2

\* storageUtils.cleanupObjectUrls
CleanupObjectUrls(files, bl) ==
  [k \in DOMAIN bl |->
     IF \E e \in Range(files) : e.src = BlobUrl(k) /\ IsBlob(e.src) /\ e.cloudUrl = EmptyUrl
     THEN Min(bl[k] + 1, RevokeCap) ELSE bl[k]]

\* the cleanup of useEffect(..., [mediaFiles]), run with the list it closed over
EffectCleanup(files, bl) ==
  IF Len(files) > 0 THEN CleanupObjectUrls(files, bl) ELSE bl

(***************************************************************************)
(* Bounds of the model                                                     *)
(***************************************************************************)
\* intake calls started in one session
MaxCalls == 2
\* the clock runs over 0..MaxClock
MaxClock == 1

(***************************************************************************)
(* One call of processFiles: the files given, the list the call closed     *)
(* over (existing), the position of its loop, how its calls of             *)
(* uploadFileToCloud ended (uploads), and what it has reported through its *)
(* three callbacks so far.                                                 *)
(***************************************************************************)
\* storageUtils.ts and MediaUploader.tsx: maxFiles
MaxFiles == 12

NewCall(files, existing, form) ==
  [files |-> files, existing |-> existing, context |-> form,
   i |-> 0, pc |-> "start", fileId |-> <<>>, processed |-> Null,
   newFiles |-> <<>>, errors |-> <<>>, timers |-> {}, leaked |-> {},
   uploads |-> <<>>,
   onError |-> <<>>, onProgress |-> {}, onComplete |-> <<>>]

\* only the incoming batch is counted
OverLimitBatchOnly(existingFiles, files) == Len(files) > MaxFiles

\* existingFiles.length + files.length > maxFiles
OverLimit(existingFiles, files) == Len(existingFiles) + Len(files) > MaxFiles

LimitMessage(existingFiles) ==
  <<"Maximum ", MaxFiles, " files allowed. You can add ",
    MaxFiles - Len(existingFiles), " more files.">>

\* Date.now().toString() + i
FileId(t, i) == <<t, i>>

Reported(c, fileId, progress, isUploading) ==
  [c EXCEPT !.onProgress = @ \cup {<<fileId, progress, isUploading>>}]

\* a batch with errors hands over nothing
SettleErrorsOnly(c, i) ==
  IF Len(c.errors) > 0
  THEN [c EXCEPT !.i = i, !.pc = "done", !.onError = Append(@, c.errors)]
  ELSE IF Len(c.newFiles) > 0
  THEN [c EXCEPT !.i = i, !.pc = "meta", !.onComplete = Append(@, c.newFiles)]
  ELSE [c EXCEPT !.i = i, !.pc = "done"]

\* the end of processAndUploadFiles: report the errors, hand over the new files
Settle(c, i) ==
  LET c1 == IF Len(c.errors) > 0 THEN [c EXCEPT !.onError = Append(@, c.errors)] ELSE c
  IN IF Len(c1.newFiles) > 0
     THEN [c1 EXCEPT !.i = i, !.pc = "meta", !.onComplete = Append(@, c1.newFiles)]
     ELSE [c1 EXCEPT !.i = i, !.pc = "done"]

RECURSIVE StorageLoop(_, _, _)
\* the for loop of processAndUploadFiles from index i (1-based) up to its next await
StorageLoop(c, i, t) ==
  IF i > Len(c.files) THEN Settle(c, i)
  ELSE LET file == c.files[i]
           validation == ValidateImageFile(file)
       IN IF ~validation.isValid
          THEN StorageLoop([c EXCEPT !.errors = Append(@, validation.error)], i + 1, t)
          ELSE Reported([c EXCEPT !.i = i, !.fileId = FileId(t, i - 1), !.pc = "image"],
                        FileId(t, i - 1), 10, TRUE)

(***************************************************************************)
(* ProjectStepper: the callbacks it hands to processAndUploadFiles, and    *)
(* the commit of a render.  All state updates of one continuation are      *)
(* committed in one render; the effect cleanup of the previous render runs *)
(* with the list that render closed over.                                  *)
(***************************************************************************)
\* setMediaFiles(prev => prev.map(file => file.id === fileId ? {...} : file))
ApplyProgress(files, fileId, progress, isUploading) ==
  [k \in 1..Len(files) |->
     IF files[k].id = fileId
     THEN [files[k] EXCEPT !.uploadProgress = progress, !.isUploading = isUploading]
     ELSE files[k]]

Commit(files, bl, rendered) ==
  IF mounted /\ rendered
  THEN /\ mediaFiles' = files
       /\ blobs' = EffectCleanup(mediaFiles, bl)
  ELSE /\ mediaFiles' = mediaFiles
       /\ blobs' = bl

\* setErrors([error]); setTimeout(() => setErrors([]), 5000)
ShowError(s, error) == [errors |-> <<error>>, timers |-> s.timers + 1]

\* runs the loop of call b on from file c.i + 1 at time t and commits what the
\* continuation did
Proceed(b, cs, c, t, files, bl, rendered) ==
  LET c2 == StorageLoop(c, c.i + 1, t)
      atImage == c2.pc = "image"
      files2 == IF atImage THEN ApplyProgress(files, c2.fileId, 10, TRUE) ELSE files
      \* processImage: img.src = URL.createObjectURL(file)
      bl2 == IF atImage THEN Append(bl, 0) ELSE bl
  IN /\ calls' = [cs EXCEPT ![b] = c2]
     /\ Commit(files2, bl2, rendered \/ atImage)
     /\ shown' = IF Len(c2.onError) > Len(c.onError)
                 THEN ShowError(shown, c2.onError[Len(c2.onError)])
                 ELSE shown

\* ProjectStepper.processFiles -> processAndUploadFiles, up to its first await
StepperProcessFiles(files) ==
  /\ host = "stepper" /\ mounted /\ Len(calls) < MaxCalls
  /\ LET c == NewCall(files, mediaFiles, formData)
         b == Len(calls) + 1
     IN IF OverLimit(c.existing, files)
        THEN /\ calls' = Append(calls, [c EXCEPT !.pc = "done",
                                          !.onError = <<<<LimitMessage(c.existing)>>>>])
             /\ shown' = ShowError(shown, <<LimitMessage(c.existing)>>)
             /\ UNCHANGED <<mediaFiles, blobs>>
        ELSE Proceed(b, Append(calls, c), c, now, mediaFiles, blobs, FALSE)
  /\ UNCHANGED <<host, cloud, now, formData, mounted, layout, last, pdf, pptx, arg, ret, stepper, dash>>

\* await processImage(file) resolves
ImageResolves(b) ==
  /\ host = "stepper" /\ b \in DOMAIN calls /\ calls[b].pc = "image"
  /\ \E r \in ProcessImage(calls[b].files[calls[b].i]) :
       /\ r.ok
       /\ calls' = [calls EXCEPT ![b] =
            Reported([@ EXCEPT !.processed = r.value, !.pc = "moderate"],
                     calls[b].fileId, 20, TRUE)]
  /\ Commit(ApplyProgress(mediaFiles, calls[b].fileId, 20, TRUE), blobs, TRUE)
  /\ UNCHANGED <<host, cloud, now, formData, mounted, shown, layout, last, pdf, pptx, arg, ret, stepper, dash>>

\* await processImage(file) rejects: the file is reported and the loop goes on
ImageRejects(b) ==
  /\ host = "stepper" /\ b \in DOMAIN calls /\ calls[b].pc = "image"
  /\ \E r \in ProcessImage(calls[b].files[calls[b].i]) :
       /\ ~r.ok
       /\ LET c == calls[b]
              c1 == [c EXCEPT !.errors =
                       Append(@, Message("", c.files[c.i].name, ": Failed to process image"))]
          IN Proceed(b, calls, c1, now, mediaFiles, blobs, FALSE)
  /\ UNCHANGED <<host, cloud, now, formData, mounted, layout, last, pdf, pptx, arg, ret, stepper, dash>>

\* Math.random() * 80 + 10 lies in [10, 90): its ends
RandomProgress == {10, 89}

\* the fallback leaves src empty
StoredLocallyNoSrc(mediaFile, url) ==
  [mediaFile EXCEPT !.isUploading = FALSE, !.uploadProgress = 100]

\* mediaFile.src = URL.createObjectURL(...); isUploading = false; uploadProgress = 100
StoredLocally(mediaFile, url) ==
  [mediaFile EXCEPT !.src = url, !.isUploading = FALSE, !.uploadProgress = 100]

\* mediaFile.src = cloudUrl; mediaFile.cloudUrl = cloudUrl; ...
StoredInCloud(mediaFile, cloudUrl) ==
  [mediaFile EXCEPT !.src = cloudUrl, !.cloudUrl = cloudUrl,
                    !.isUploading = FALSE, !.uploadProgress = 100]

ReplaceLast(s, e) == [s EXCEPT ![Len(s)] = e]

\* await moderateImage(...) resolves, 500 ms after it was called: the entry is made,
\* then uploaded or kept locally
ModerationResolves(b) ==
  /\ host = "stepper" /\ b \in DOMAIN calls /\ calls[b].pc = "moderate"
  /\ LET c == calls[b]
         file == c.files[c.i]
         moderationResult == ModerateImage(c.processed.file)
         mediaFile == NewMediaFile(c.fileId, c.processed)
         pushed == [c EXCEPT !.newFiles = Append(@, mediaFile)]
         url == BlobUrl(Len(blobs) + 1)
     IN IF ~moderationResult.approved
        THEN Proceed(b, calls,
                     [c EXCEPT !.errors = Append(@, Message("", file.name, ": Content not approved"))],
                     now + 1,
                     mediaFiles, blobs, FALSE)
        ELSE IF cloud
        THEN \* onProgress(fileId, 30, true); uploadFileToCloud starts its interval and awaits
             /\ calls' = [calls EXCEPT ![b] = Reported([pushed EXCEPT !.pc = "upload"],
                                                       c.fileId, 30, TRUE)]
             /\ Commit(ApplyProgress(mediaFiles, c.fileId, 30, TRUE), blobs, TRUE)
             /\ shown' = shown
        ELSE \* local storage: the entry is finished, its progress interval starts
             Proceed(b, calls,
                     [pushed EXCEPT
                        !.newFiles = ReplaceLast(@, StoredLocally(mediaFile, url)),
                        !.timers = @ \cup {[id |-> c.fileId, progress |-> 30]}],
                     now + 1,
                     mediaFiles, Append(blobs, 0), FALSE)
  /\ now' = now + 1
  /\ UNCHANGED <<host, cloud, formData, mounted, layout, last, pdf, pptx, arg, ret, stepper, dash>>

\* uploadFileToCloud: a tick of its progress interval while the upload is awaited
UploadTick(b) ==
  /\ host = "stepper" /\ b \in DOMAIN calls /\ calls[b].pc = "upload"
  /\ \E r \in RandomProgress :
       LET currentProgress == Min(90, r)
           progress == Max(30, currentProgress)
       IN /\ calls' = [calls EXCEPT ![b] = Reported(@, calls[b].fileId, progress, TRUE)]
          /\ Commit(ApplyProgress(mediaFiles, calls[b].fileId, progress, TRUE), blobs, TRUE)
  /\ UNCHANGED <<host, cloud, now, formData, mounted, shown, layout, last, pdf, pptx, arg, ret, stepper, dash>>

\* the upload succeeds: onProgress(100), the public URL becomes src and cloudUrl
UploadSucceeds(b) ==
  /\ host = "stepper" /\ b \in DOMAIN calls /\ calls[b].pc = "upload"
  /\ LET c == calls[b]
         cloudUrl == PublicUrl(<<b, c.i>>)
         mediaFile == c.newFiles[Len(c.newFiles)]
         c1 == Reported(Reported(c, c.fileId, Max(30, 100), TRUE), c.fileId, 100, FALSE)
         c2 == [c1 EXCEPT !.newFiles = ReplaceLast(@, StoredInCloud(mediaFile, cloudUrl)),
                          !.uploads = Append(@, [id |-> c.fileId, ok |-> TRUE,
                                                 url |-> cloudUrl])]
         files == ApplyProgress(ApplyProgress(mediaFiles, c.fileId, Max(30, 100), TRUE),
                                c.fileId, 100, FALSE)
     IN Proceed(b, calls, c2, now, files, blobs, TRUE)
  /\ UNCHANGED <<host, cloud, now, formData, mounted, layout, last, pdf, pptx, arg, ret, stepper, dash>>

\* the failed upload is put on the error list of the batch
UploadFailsReported(b) ==
  /\ host = "stepper" /\ b \in DOMAIN calls /\ calls[b].pc = "upload"
  /\ LET c == calls[b]
         url == BlobUrl(Len(blobs) + 1)
         mediaFile == c.newFiles[Len(c.newFiles)]
         c1 == Reported(c, c.fileId, 100, FALSE)
         c2 == [c1 EXCEPT !.newFiles = ReplaceLast(@, StoredLocally(mediaFile, url)),
                          !.uploads = Append(@, [id |-> c.fileId, ok |-> FALSE]),
                          !.errors = Append(@, Message("", c.files[c.i].name,
                                                       ": Upload failed"))]
     IN Proceed(b, calls, c2, now, ApplyProgress(mediaFiles, c.fileId, 100, FALSE),
                Append(blobs, 0), TRUE)
  /\ UNCHANGED <<host, cloud, now, formData, mounted, layout, last, pdf, pptx, arg, ret, stepper, dash>>

\* the upload fails: uploadFileToCloud throws, the entry falls back to a local URL.
\* When the upload resolves with an error the interval has been cleared; when the
\* awaited upload rejects, clearInterval is not reached and the interval is left
\* running.
UploadFails(b) ==
  /\ host = "stepper" /\ b \in DOMAIN calls /\ calls[b].pc = "upload"
  /\ \E cleared \in BOOLEAN :
       LET c == calls[b]
           url == BlobUrl(Len(blobs) + 1)
           mediaFile == c.newFiles[Len(c.newFiles)]
           c1 == Reported(c, c.fileId, 100, FALSE)
           c2 == [c1 EXCEPT !.newFiles = ReplaceLast(@, StoredLocally(mediaFile, url)),
                            !.uploads = Append(@, [id |-> c.fileId, ok |-> FALSE]),
                            !.leaked = IF cleared THEN @ ELSE @ \cup {c.fileId}]
       IN Proceed(b, calls, c2, now, ApplyProgress(mediaFiles, c.fileId, 100, FALSE),
                  Append(blobs, 0), TRUE)
  /\ UNCHANGED <<host, cloud, now, formData, mounted, layout, last, pdf, pptx, arg, ret, stepper, dash>>

\* uploadFileToCloud: a tick of an interval that was left running
LeftoverTick(b) ==
  /\ host = "stepper" /\ b \in DOMAIN calls
  /\ \E id \in calls[b].leaked, r \in RandomProgress :
       LET currentProgress == Min(90, r)
           progress == Max(30, currentProgress)
       IN /\ calls' = [calls EXCEPT ![b] = Reported(@, id, progress, TRUE)]
          /\ Commit(ApplyProgress(mediaFiles, id, progress, TRUE), blobs, TRUE)
  /\ UNCHANGED <<host, cloud, now, formData, mounted, shown, layout, last, pdf, pptx, arg, ret, stepper, dash>>

\* local storage: a tick of the 100 ms interval: progress += 20, stop at >= 100
LocalTick(b) ==
  /\ host = "stepper" /\ b \in DOMAIN calls
  /\ \E tm \in calls[b].timers :
       LET progress == tm.progress + 20
           rest == calls[b].timers \ {tm}
       IN /\ calls' = [calls EXCEPT ![b] =
                Reported([@ EXCEPT !.timers =
                            IF progress >= 100 THEN rest
                            ELSE rest \cup {[id |-> tm.id, progress |-> progress]}],
                         tm.id, progress, progress < 100)]
          /\ Commit(ApplyProgress(mediaFiles, tm.id, progress, progress < 100), blobs, TRUE)
  /\ UNCHANGED <<host, cloud, now, formData, mounted, shown, layout, last, pdf, pptx, arg, ret, stepper, dash>>

\* onComplete of ProjectStepper: the metadata of all new files has resolved
MetadataResolves(b) ==
  /\ host = "stepper" /\ b \in DOMAIN calls /\ calls[b].pc = "meta"
  /\ LET c == calls[b]
         newFiles == c.onComplete[Len(c.onComplete)]
         filesWithMetadata ==
           [k \in 1..Len(newFiles) |->
              LET metadata == StepperImageMeta(newFiles[k].file.name, c.context)
              IN [newFiles[k] EXCEPT !.caption = metadata.caption, !.alt = metadata.alt]]
     IN /\ calls' = [calls EXCEPT ![b].pc = "done"]
        /\ Commit(mediaFiles \o filesWithMetadata, blobs, TRUE)
  /\ UNCHANGED <<host, cloud, now, formData, mounted, shown, layout, last, pdf, pptx, arg, ret, stepper, dash>>

\* the 5 s timer of an error message: setErrors([])
ErrorsExpire ==
  /\ shown.timers > 0
  /\ shown' = [errors |-> <<>>, timers |-> shown.timers - 1]
  /\ UNCHANGED <<host, cloud, now, formData, mediaFiles, mounted, blobs, calls,
                 layout, last, pdf, pptx, arg, ret, stepper, dash>>

\* time passes
ClockTick ==
  /\ now < MaxClock
  /\ now' = now + 1
  /\ UNCHANGED <<host, cloud, formData, mediaFiles, mounted, blobs, calls, shown,
                 layout, last, pdf, pptx, arg, ret, stepper, dash>>

\* the component owning the list unmounts: the last effect cleanup runs
Unmount ==
  /\ mounted
  /\ mounted' = FALSE
  /\ blobs' = EffectCleanup(mediaFiles, blobs)
  /\ UNCHANGED <<host, cloud, now, formData, mediaFiles, calls, shown, layout, last,
                 pdf, pptx, arg, ret, stepper, dash>>

(***************************************************************************)
(* AutoLayout, rendered by the stepper with onReorder = setMediaFiles      *)
(* while the list is not empty.                                            *)
(***************************************************************************)
LayoutInit ==
  [autoPlace |-> TRUE, draggedItem |-> Null, editingAlt |-> Null, tempAltText |-> <<>>]

Ids(files) == {files[k].id : k \in 1..Len(files)}

\* Array.prototype.findIndex(f => f.id === id), 1-based; 0 stands for -1
FindIndex(files, id) ==
  IF \E k \in 1..Len(files) : files[k].id = id
  THEN CHOOSE k \in 1..Len(files) :
         files[k].id = id /\ \A m \in 1..(k - 1) : files[m].id # id
  ELSE 0

\* splice(k, 1) and splice(k, 0, e), with 1-based k
RemoveAt(s, k) == SubSeq(s, 1, k - 1) \o SubSeq(s, k + 1, Len(s))
InsertAt(s, k, e) ==
  LET at == Min(k, Len(s) + 1) IN SubSeq(s, 1, at - 1) \o <<e>> \o SubSeq(s, at, Len(s))

\* the target index is corrected for the removal that came before
MoveEntryShifted(files, draggedIndex, targetIndex) ==
  InsertAt(RemoveAt(files, draggedIndex),
           IF draggedIndex < targetIndex THEN targetIndex - 1 ELSE targetIndex,
           files[draggedIndex])

\* const [draggedFile] = newFiles.splice(draggedIndex, 1);
\* newFiles.splice(targetIndex, 0, draggedFile)
MoveEntry(files, draggedIndex, targetIndex) ==
  InsertAt(RemoveAt(files, draggedIndex), targetIndex, files[draggedIndex])

\* the gallery is rendered: the owner is mounted and shows a non-empty list
GalleryShown == host = "stepper" /\ mounted /\ Len(mediaFiles) > 0

HandleDragStart(fileId) ==
  /\ GalleryShown /\ ~layout.autoPlace /\ fileId \in Ids(mediaFiles)
  /\ layout' = [layout EXCEPT !.draggedItem = fileId]
  /\ UNCHANGED <<host, cloud, now, formData, mediaFiles, mounted, blobs, calls, shown,
                 last, pdf, pptx, arg, ret, stepper, dash>>

HandleDrop(targetId) ==
  /\ GalleryShown
  /\ LET draggedItem == layout.draggedItem
         draggedIndex == FindIndex(mediaFiles, draggedItem)
         targetIndex == FindIndex(mediaFiles, targetId)
         returnsEarly == \/ draggedItem = Null
                         \/ draggedItem = targetId
                         \/ draggedIndex = 0
                         \/ targetIndex = 0
         newFiles == IF returnsEarly THEN mediaFiles
                     ELSE MoveEntry(mediaFiles, draggedIndex, targetIndex)
     IN /\ Commit(newFiles, blobs, ~returnsEarly)
        /\ layout' = IF returnsEarly THEN layout ELSE [layout EXCEPT !.draggedItem = Null]
        /\ last' = [op |-> "handleDrop", dragged |-> draggedItem, target |-> targetId,
                    before |-> mediaFiles, reordered |-> ~returnsEarly]
  /\ UNCHANGED <<host, cloud, now, formData, mounted, calls, shown, pdf, pptx, arg, ret, stepper, dash>>

HandleDragEnd ==
  /\ GalleryShown /\ layout.draggedItem # Null
  /\ layout' = [layout EXCEPT !.draggedItem = Null]
  /\ UNCHANGED <<host, cloud, now, formData, mediaFiles, mounted, blobs, calls, shown,
                 last, pdf, pptx, arg, ret, stepper, dash>>

\* the addressed entry and every entry after it are dropped
WithoutIdTruncated(files, fileId) == SubSeq(files, 1, FindIndex(files, fileId) - 1)

\* Array.prototype.filter(f => f.id !== fileId)
WithoutId(files, fileId) ==
  LET keep == {k \in 1..Len(files) : files[k].id # fileId}
      nth(n) == CHOOSE k \in keep : Cardinality({m \in keep : m < k}) = n - 1
  IN [n \in 1..Cardinality(keep) |-> files[nth(n)]]

\* AutoLayout.removeFile; an emptied list takes the gallery and its state away
RemoveFile(fileId) ==
  /\ GalleryShown /\ fileId \in Ids(mediaFiles)
  /\ LET newFiles == WithoutId(mediaFiles, fileId)
     IN /\ Commit(newFiles, blobs, TRUE)
        /\ layout' = IF Len(newFiles) = 0 THEN LayoutInit ELSE layout
        /\ last' = [op |-> "removeFile", id |-> fileId,
                    removed |-> mediaFiles[FindIndex(mediaFiles, fileId)]]
  /\ UNCHANGED <<host, cloud, now, formData, mounted, calls, shown, pdf, pptx, arg, ret, stepper, dash>>

StartEditingAlt(fileId) ==
  /\ GalleryShown /\ fileId \in Ids(mediaFiles)
  /\ layout.editingAlt # fileId
  /\ layout' = [layout EXCEPT !.editingAlt = fileId,
                              !.tempAltText = mediaFiles[FindIndex(mediaFiles, fileId)].alt]
  /\ UNCHANGED <<host, cloud, now, formData, mediaFiles, mounted, blobs, calls, shown,
                 last, pdf, pptx, arg, ret, stepper, dash>>

\* what the user types into the alt text box
AltInputs == { <<"o","k">> }

SetTempAltText(text) ==
  /\ GalleryShown /\ layout.editingAlt \in Ids(mediaFiles)
  /\ layout.tempAltText # text
  /\ layout' = [layout EXCEPT !.tempAltText = text]
  /\ UNCHANGED <<host, cloud, now, formData, mediaFiles, mounted, blobs, calls, shown,
                 last, pdf, pptx, arg, ret, stepper, dash>>

SaveAltText(fileId) ==
  /\ GalleryShown /\ fileId \in Ids(mediaFiles) /\ layout.editingAlt = fileId
  /\ LET newFiles == [k \in 1..Len(mediaFiles) |->
                        IF mediaFiles[k].id = fileId
                        THEN [mediaFiles[k] EXCEPT !.alt = layout.tempAltText]
                        ELSE mediaFiles[k]]
     IN /\ Commit(newFiles, blobs, TRUE)
        /\ last' = [op |-> "saveAltText", id |-> fileId]
  /\ layout' = [layout EXCEPT !.editingAlt = Null, !.tempAltText = <<>>]
  /\ UNCHANGED <<host, cloud, now, formData, mounted, calls, shown, pdf, pptx, arg, ret, stepper, dash>>

CancelEditingAlt ==
  /\ GalleryShown /\ layout.editingAlt \in Ids(mediaFiles)
  /\ layout' = [layout EXCEPT !.editingAlt = Null, !.tempAltText = <<>>]
  /\ UNCHANGED <<host, cloud, now, formData, mediaFiles, mounted, blobs, calls, shown,
                 last, pdf, pptx, arg, ret, stepper, dash>>

ToggleAutoPlace ==
  /\ GalleryShown
  /\ layout' = [layout EXCEPT !.autoPlace = ~layout.autoPlace]
  /\ UNCHANGED <<host, cloud, now, formData, mediaFiles, mounted, blobs, calls, shown,
                 last, pdf, pptx, arg, ret, stepper, dash>>

(***************************************************************************)
(* MediaUploader, rendered by ProjectWorkspace with                        *)
(* onMediaFilesChange = setMediaFiles and projectContext = formData.       *)
(* processFiles validates, measures and captions each file itself; what it *)
(* reports is kept in the call like the callbacks of processAndUploadFiles:*)
(* onError holds the setErrors calls, onComplete the new entries handed to *)
(* onMediaFilesChange.                                                     *)
(***************************************************************************)
UploaderSettle(c, i) ==
  LET c1 == IF Len(c.newFiles) > 0
            THEN [c EXCEPT !.onComplete = Append(@, c.newFiles)] ELSE c
      c2 == IF Len(c.errors) > 0 THEN [c1 EXCEPT !.onError = Append(@, c.errors)] ELSE c1
  IN [c2 EXCEPT !.i = i, !.pc = "done"]

RECURSIVE UploaderLoop(_, _, _)
\* the for loop of MediaUploader.processFiles from index i up to its next await
UploaderLoop(c, i, t) ==
  IF i > Len(c.files) THEN UploaderSettle(c, i)
  ELSE LET file == c.files[i] IN
       IF file.type \notin ALLOWED_MIME_TYPES
       THEN UploaderLoop([c EXCEPT !.errors = Append(@,
              Message("", file.name, ": Unsupported file type. Only JPG, PNG, and WebP are allowed."))],
              i + 1, t)
       ELSE IF file.size > MAX_FILE_SIZE
       THEN UploaderLoop([c EXCEPT !.errors = Append(@,
              Message("", file.name, ": File too large. Maximum size is 10MB."))], i + 1, t)
       ELSE [c EXCEPT !.i = i, !.fileId = FileId(t, i - 1), !.pc = "image"]

\* runs the loop of call b on from file c.i + 1 at time t and commits what the
\* continuation did
UploaderProceed(b, cs, c, bl) ==
  LET c2 == UploaderLoop(c, c.i + 1, now)
      \* img.src = URL.createObjectURL(file)
      bl2 == IF c2.pc = "image" THEN Append(bl, 0) ELSE bl
      changed == Len(c2.onComplete) > Len(c.onComplete)
  IN /\ calls' = [cs EXCEPT ![b] = c2]
     \* onMediaFilesChange([...mediaFiles, ...newFiles])
     /\ Commit(c2.existing \o c2.newFiles, bl2, changed)
     /\ shown' = IF Len(c2.onError) > Len(c.onError)
                 THEN [errors |-> c2.errors, timers |-> shown.timers + 1]
                 ELSE shown

UploaderProcessFiles(files) ==
  /\ host = "workspace" /\ mounted /\ Len(calls) < MaxCalls
  /\ LET c == NewCall(files, mediaFiles, formData)
         b == Len(calls) + 1
     IN IF OverLimit(c.existing, files)
        THEN /\ calls' = Append(calls, [c EXCEPT !.pc = "done",
                                          !.onError = <<<<LimitMessage(c.existing)>>>>])
             /\ shown' = ShowError(shown, LimitMessage(c.existing))
             /\ UNCHANGED <<mediaFiles, blobs>>
        ELSE UploaderProceed(b, Append(calls, c), c, blobs)
  /\ UNCHANGED <<host, cloud, now, formData, mounted, layout, last, pdf, pptx, arg, ret, stepper, dash>>

\* img.onload: the natural dimensions are taken as they are
UploaderImageLoads(b) ==
  /\ host = "workspace" /\ b \in DOMAIN calls /\ calls[b].pc = "image"
  /\ LET file == calls[b].files[calls[b].i]
     IN /\ file.decodes
        /\ calls' = [calls EXCEPT ![b].pc = "meta",
                       ![b].processed =
                         [file |-> file, width |-> file.naturalWidth,
                          height |-> file.naturalHeight,
                          aspectRatio |-> Ratio(file.naturalWidth, file.naturalHeight)]]
  /\ UNCHANGED <<host, cloud, now, formData, mediaFiles, mounted, blobs, shown, layout,
                 last, pdf, pptx, arg, ret, stepper, dash>>

\* img.onerror: the file is reported and the loop goes on
UploaderImageFails(b) ==
  /\ host = "workspace" /\ b \in DOMAIN calls /\ calls[b].pc = "image"
  /\ LET c == calls[b]
         file == c.files[c.i]
     IN /\ ~file.decodes
        /\ UploaderProceed(b, calls,
             [c EXCEPT !.errors = Append(@, Message("", file.name, ": Failed to process image"))],
             blobs)
  /\ UNCHANGED <<host, cloud, now, formData, mounted, layout, last, pdf, pptx, arg, ret, stepper, dash>>

\* the entry MediaUploader makes of a file
UploaderMediaFile(fileId, measured, metadata, url, cloudAvailable) ==
  [id |-> fileId, src |-> url,
   width |-> measured.width, height |-> measured.height,
   aspectRatio |-> measured.aspectRatio, file |-> measured.file,
   uploadProgress |-> 100, isUploading |-> FALSE,
   cloudUrl |-> IF cloudAvailable THEN url ELSE EmptyUrl,
   caption |-> metadata.caption, alt |-> metadata.alt]

\* await generateImageMeta(...) resolves: the entry is made and pushed
UploaderMetaResolves(b) ==
  /\ host = "workspace" /\ b \in DOMAIN calls /\ calls[b].pc = "meta"
  /\ LET c == calls[b]
         metadata == UploaderImageMeta(c.files[c.i].name, c.context)
         mediaFile == UploaderMediaFile(c.fileId, c.processed, metadata,
                                        BlobUrl(Len(blobs) + 1), cloud)
     IN UploaderProceed(b, calls, [c EXCEPT !.newFiles = Append(@, mediaFile)],
                        Append(blobs, 0))
  /\ UNCHANGED <<host, cloud, now, formData, mounted, layout, last, pdf, pptx, arg, ret, stepper, dash>>

\* MediaUploader.removeFile
UploaderRemoveFile(fileId) ==
  /\ host = "workspace" /\ mounted /\ fileId \in Ids(mediaFiles)
  /\ LET newFiles == WithoutId(mediaFiles, fileId)
     IN /\ Commit(newFiles, blobs, TRUE)
        /\ last' = [op |-> "removeFile", id |-> fileId,
                    removed |-> mediaFiles[FindIndex(mediaFiles, fileId)]]
  /\ UNCHANGED <<host, cloud, now, formData, mounted, calls, shown, layout, pdf, pptx, arg, ret, stepper, dash>>

(***************************************************************************)
(* exportUtils.exportToPDF.  pdf.out is the sequence of drawing calls made *)
(* on the document (text, addPage, addImage); a project is given by the    *)
(* numbers of its sections and citations, and pdf.lines gives the numbers  *)
(* of lines splitTextToSize returns for its texts.  pdf.y is yPosition and *)
(* pdf.page the current page; pdf.texts and pdf.images keep where each     *)
(* text block and each image is drawn.  Lengths are millimetres, kept as   *)
(* exact quotients; a text block of n lines has its lines at the distance  *)
(* the code reserves for them (5 or 4 per line).                           *)
(***************************************************************************)
MaxSections == 1
MaxCitations == 1
\* media entries handed to an export
MaxExportMedia == 3

\* new jsPDF(): A4 portrait, millimetres
PageWidth == 210
PageHeight == 297
Margin == 20
ContentWidth == PageWidth - (Margin * 2)

Abs(k) == IF k < 0 THEN 0 - k ELSE k

RECURSIVE Gcd(_, _)
Gcd(a, b) == IF b = 0 THEN a ELSE Gcd(b, a % b)

\* the quotient n / d (d # 0) in lowest terms with a positive denominator
Quot(n, d) ==
  LET g == Gcd(Abs(n), Abs(d))
      s == IF d < 0 THEN 0 - 1 ELSE 1
  IN Ratio(s * (n \div g), s * (d \div g))

Whole(k) == Ratio(k, 1)
QAdd(a, b) == Quot(a.num * b.den + b.num * a.den, a.den * b.den)
QSub(a, b) == Quot(a.num * b.den - b.num * a.den, a.den * b.den)
QMul(a, b) == Quot(a.num * b.num, a.den * b.den)
QDiv(a, b) == Quot(a.num * b.den, a.den * b.num)
QLess(a, b) == a.num * b.den < b.num * a.den
QLeq(a, b) == a.num * b.den <= b.num * a.den

GetScaledDimensions(originalWidth, originalHeight, maxWidth, maxHeight) ==
  LET aspectRatio == Quot(originalWidth, originalHeight)
      first == IF QLess(maxWidth, Whole(originalWidth))
               THEN [width |-> maxWidth, height |-> QDiv(maxWidth, aspectRatio)]
               ELSE [width |-> Whole(originalWidth), height |-> Whole(originalHeight)]
  IN IF QLess(maxHeight, first.height)
     THEN [width |-> QMul(maxHeight, aspectRatio), height |-> maxHeight]
     ELSE first

Text(what) == [op |-> "text", text |-> what]
AddPage == [op |-> "addPage"]
AddImage(index) == [op |-> "addImage", index |-> index]

\* one line for every text
ShortTexts == [abstract |-> 1, content |-> 1, citation |-> 1, caption |-> 1]

PdfIdle(project, media) ==
  [pc |-> "idle", project |-> project, media |-> media, i |-> 0, out |-> <<>>,
   saved |-> FALSE, lines |-> ShortTexts, y |-> Whole(Margin), page |-> 1,
   texts |-> <<>>, images |-> <<>>]

\* pdf.text(lines, margin, yPosition) with n lines set step apart
DrawText(p, part, what, n, step) ==
  [p EXCEPT !.out = Append(@, Text(what)),
            !.texts = Append(@, [part |-> part, what |-> what, page |-> p.page, y |-> p.y,
                                 lines |-> n, step |-> step])]

\* yPosition += dy
Advance(p, dy) == [p EXCEPT !.y = QAdd(@, Whole(dy))]

\* pdf.addPage(); yPosition = margin
NewPage(p) ==
  [p EXCEPT !.out = Append(@, AddPage), !.page = @ + 1, !.y = Whole(Margin)]

\* `Figure ${i + 1}: ${mediaFile.caption || mediaFile.file.name}`, i counted from 0
FigureCaption(i, mediaFile) ==
  <<"Figure ", i + 1, ": ", OrElse(mediaFile.caption, mediaFile.file.name)>>

\* one section: the page check, its title and its content
PdfSection(p, k) ==
  LET p1 == IF QLess(Whole(PageHeight - 40), p.y) THEN NewPage(p) ELSE p
      p2 == Advance(DrawText(p1, "section", <<"section.title", k>>, 1, 10), 10)
  IN Advance(DrawText(p2, "section", <<"section.content", k>>, p.lines.content, 4),
             p.lines.content * 4 + 10)

RECURSIVE PdfSections(_, _)
PdfSections(p, k) ==
  IF k > p.project.sections THEN p ELSE PdfSections(PdfSection(p, k), k + 1)

\* title, abstract and the sections
PdfBody(p) ==
  LET p1 == Advance(DrawText(p, "title", <<"title">>, 1, 15), 15)
      p2 == Advance(DrawText(p1, "abstract", <<"abstract">>, p.lines.abstract, 5),
                    p.lines.abstract * 5 + 10)
  IN PdfSections(p2, 1)

RECURSIVE PdfCitations(_, _)
PdfCitations(p, k) ==
  IF k > p.project.citations THEN p
  ELSE PdfCitations(Advance(DrawText(p, "references", <<k, ". ", "citation">>, p.lines.citation, 4),
                            p.lines.citation * 4 + 5),
                    k + 1)

\* the references, then pdf.save
PdfFinish(p) ==
  LET p1 == IF p.project.citations > 0
            THEN PdfCitations(Advance(DrawText(NewPage(p), "references", <<"References">>, 1, 15), 15), 1)
            ELSE p
  IN [p1 EXCEPT !.pc = "done", !.saved = TRUE]

\* the loop over mediaFiles from index i (1-based) up to its await of fileToDataURL
PdfFigures(p, i) ==
  IF i > Len(p.media) THEN PdfFinish([p EXCEPT !.i = i])
  ELSE [p EXCEPT !.i = i, !.pc = "reading"]

\* exportToPDF from its call up to its first await
PdfStart(p) ==
  LET p1 == PdfBody(p)
  IN IF Len(p.media) > 0
     THEN PdfFigures(Advance(DrawText(NewPage(p1), "figures", <<"Figures">>, 1, 20), 20), 1)
     ELSE PdfFinish(p1)

\* a call made on the document outside the inner try throws: the outer catch
\* logs and throws 'Failed to export PDF. Please try again.'
PdfThrown(p) == [p EXCEPT !.pc = "failed"]

ExportToPDF ==
  /\ pdf.pc = "idle"
  /\ pdf' = PdfStart(pdf)
  /\ UNCHANGED <<sessionVars, last, pptx, arg, ret, stepper, dash>>

\* the scaled size of mediaFile at yPosition y
ScaledAt(mediaFile, y) ==
  GetScaledDimensions(mediaFile.width, mediaFile.height, Whole(ContentWidth),
                      QSub(Whole(PageHeight - 60), y))

\* the page check before an image of the scaled height
FigurePage(p, scaled) ==
  IF QLess(Whole(PageHeight - Margin), QAdd(QAdd(p.y, scaled.height), Whole(30)))
  THEN NewPage(p)
  ELSE p

\* fileToDataURL resolves and addImage takes the data: image and caption are drawn
PdfFigureDrawn ==
  /\ pdf.pc = "reading"
  /\ LET mediaFile == pdf.media[pdf.i]
         scaled == ScaledAt(mediaFile, pdf.y)
         p1 == FigurePage(pdf, scaled)
         xPosition == QAdd(Whole(Margin),
                           QDiv(QSub(Whole(ContentWidth), scaled.width), Whole(2)))
         p2 == [p1 EXCEPT !.out = Append(@, AddImage(pdf.i)),
                          !.images = Append(@, [index |-> pdf.i, page |-> p1.page,
                                                x |-> xPosition, y |-> p1.y,
                                                width |-> scaled.width,
                                                height |-> scaled.height]),
                          !.y = QAdd(QAdd(@, scaled.height), Whole(5))]
         p3 == Advance(DrawText(p2, "figures", FigureCaption(pdf.i - 1, mediaFile), pdf.lines.caption, 4),
                       pdf.lines.caption * 4 + 15)
     IN pdf' = PdfFigures(p3, pdf.i + 1)
  /\ UNCHANGED <<sessionVars, last, pptx, arg, ret, stepper, dash>>

\* fileToDataURL rejects: the catch logs, the loop goes on
PdfFigureUnreadable ==
  /\ pdf.pc = "reading"
  /\ pdf' = PdfFigures(pdf, pdf.i + 1)
  /\ UNCHANGED <<sessionVars, last, pptx, arg, ret, stepper, dash>>

\* pdf.addImage throws on the data, after the page check: the catch logs, the loop goes on
PdfFigureNotEmbedded ==
  /\ pdf.pc = "reading"
  /\ pdf' = PdfFigures(FigurePage(pdf, ScaledAt(pdf.media[pdf.i], pdf.y)), pdf.i + 1)
  /\ UNCHANGED <<sessionVars, last, pptx, arg, ret, stepper, dash>>

(***************************************************************************)
(* exportUtils.exportToPPTX.  pptx.slides is the sequence of slides added  *)
(* to the deck, each with the calls made on it; positions are in tenths of *)
(* an inch.  pptx.outcomes keeps, per media item handled so far, whether   *)
(* its image was read and embedded.                                        *)
(***************************************************************************)
ImagesPerSlide == 6
GridCols == 3

DeckText(what, x, y) == [op |-> "addText", text |-> what, x |-> x, y |-> y]
DeckImage(item, x, y) == [op |-> "addImage", data |-> item, x |-> x, y |-> y]

Slide(kind, ops) == [kind |-> kind, ops |-> ops]

PptxIdle(project, media) ==
  [pc |-> "idle", project |-> project, media |-> media, slideIndex |-> 0, i |-> 0,
   slides |-> <<>>, outcomes |-> <<>>]

TitleSlide ==
  Slide("title", <<DeckText(<<"title">>, 5, 20), DeckText(<<"abstract">>, 10, 40)>>)

SectionSlide(k) ==
  Slide("section", <<DeckText(<<"section.title", k>>, 5, 5),
                     DeckText(<<"section.content", k>>, 5, 18)>>)

\* slideIndex === 0 ? 'Visuals' : `Visuals (${slideIndex + 1})`
VisualSlide(slideIndex) ==
  Slide("visuals",
        <<DeckText(IF slideIndex = 0 THEN <<"Visuals">>
                   ELSE <<"Visuals (", slideIndex + 1, ")">>, 5, 3)>>)

ReferencesSlide(citations) ==
  Slide("references",
        <<DeckText(<<"References">>, 5, 5),
          DeckText([k \in 1..citations |-> <<k, ". ", "citation">>], 5, 18)>>)

\* one slide too many when the items fill the slides exactly
TotalSlidesFloorPlusOne(n) == n \div ImagesPerSlide + 1

\* Math.ceil(mediaFiles.length / imagesPerSlide)
TotalSlides(n) == (n + ImagesPerSlide - 1) \div ImagesPerSlide

\* mediaFiles.slice(startIndex, endIndex), slideIndex counted from 0
SlideImages(media, slideIndex) ==
  SubSeq(media, slideIndex * ImagesPerSlide + 1,
         Min(slideIndex * ImagesPerSlide + ImagesPerSlide, Len(media)))

\* x = startX + col * gapX, y = startY + row * gapY, i counted from 0
TileX(i) == 8 + (i % GridCols) * 32
TileY(i) == 15 + (i \div GridCols) * 28

AddToLastSlide(p, ops) ==
  [p EXCEPT !.slides = [@ EXCEPT ![Len(@)].ops = @ \o ops]]

\* the references slide, then the call of pptx.writeFile
PptxFinish(p) ==
  [p EXCEPT
     !.pc = "writing",
     !.slides = IF p.project.citations > 0
                THEN Append(@, ReferencesSlide(p.project.citations)) ELSE @]

RECURSIVE PptxVisuals(_, _, _)
\* the two loops over the image slides and their images, from image i of slide
\* slideIndex (both counted from 0) up to the next await of fileToDataURL
PptxVisuals(p, slideIndex, i) ==
  IF slideIndex >= TotalSlides(Len(p.media)) THEN PptxFinish(p)
  ELSE LET p1 == IF i = 0
                 THEN [p EXCEPT !.slides = Append(@, VisualSlide(slideIndex))]
                 ELSE p
       IN IF i < Len(SlideImages(p.media, slideIndex))
          THEN [p1 EXCEPT !.slideIndex = slideIndex, !.i = i, !.pc = "reading"]
          ELSE PptxVisuals(p1, slideIndex + 1, 0)

\* exportToPPTX from its call up to its first await
PptxStart(p) ==
  LET p1 == [p EXCEPT !.slides =
               <<TitleSlide>> \o [k \in 1..p.project.sections |-> SectionSlide(k)]]
  IN IF Len(p.media) > 0 THEN PptxVisuals(p1, 0, 0) ELSE PptxFinish(p1)

ExportToPPTX ==
  /\ pptx.pc = "idle"
  /\ pptx' = PptxStart(pptx)
  /\ UNCHANGED <<sessionVars, last, pdf, arg, ret, stepper, dash>>

\* the media item the export is reading
PptxCurrent(p) == SlideImages(p.media, p.slideIndex)[p.i + 1]

\* the catch only logs
PptxCatchLogsOnly(p) == p

\* the catch of the inner try: the placeholder text at the place of the image
PptxCatch(p) ==
  AddToLastSlide(p, <<DeckText(<<"[Image: ", PptxCurrent(p).file.name, "]">>,
                               TileX(p.i), TileY(p.i))>>)

\* fileToDataURL resolves and addImage takes the data: image and caption are added
PptxImageAdded ==
  /\ pptx.pc = "reading"
  /\ LET mediaFile == PptxCurrent(pptx)
         p1 == AddToLastSlide(pptx,
                 <<DeckImage(pptx.slideIndex * ImagesPerSlide + pptx.i,
                             TileX(pptx.i), TileY(pptx.i)),
                   DeckText(OrElse(mediaFile.caption, mediaFile.file.name),
                            TileX(pptx.i), TileY(pptx.i) + 22)>>)
     IN pptx' = PptxVisuals([p1 EXCEPT !.outcomes = Append(@, TRUE)],
                            pptx.slideIndex, pptx.i + 1)
  /\ UNCHANGED <<sessionVars, last, pdf, arg, ret, stepper, dash>>

\* fileToDataURL rejects
PptxImageUnreadable ==
  /\ pptx.pc = "reading"
  /\ pptx' = PptxVisuals([PptxCatch(pptx) EXCEPT !.outcomes = Append(@, FALSE)],
                         pptx.slideIndex, pptx.i + 1)
  /\ UNCHANGED <<sessionVars, last, pdf, arg, ret, stepper, dash>>

\* visualSlide.addImage throws on the data
PptxImageNotEmbedded ==
  /\ pptx.pc = "reading"
  /\ pptx' = PptxVisuals([PptxCatch(pptx) EXCEPT !.outcomes = Append(@, FALSE)],
                         pptx.slideIndex, pptx.i + 1)
  /\ UNCHANGED <<sessionVars, last, pdf, arg, ret, stepper, dash>>

\* await pptx.writeFile(...) resolves
PptxWritten ==
  /\ pptx.pc = "writing"
  /\ pptx' = [pptx EXCEPT !.pc = "done"]
  /\ UNCHANGED <<sessionVars, last, pdf, arg, ret, stepper, dash>>

\* await pptx.writeFile(...) rejects: 'Failed to export PPTX. Please try again.'
PptxWriteFails ==
  /\ pptx.pc = "writing"
  /\ pptx' = [pptx EXCEPT !.pc = "failed"]
  /\ UNCHANGED <<sessionVars, last, pdf, arg, ret, stepper, dash>>

(***************************************************************************)
(* Inputs                                                                  *)
(***************************************************************************)
\* a finished entry as an earlier intake leaves it in the list
Entry(id, name, caption, src, cloudUrl) ==
  [id |-> id, src |-> src, width |-> 800, height |-> 600,
   aspectRatio |-> Ratio(800, 600), file |-> [name |-> name, type |-> "image/png"],
   uploadProgress |-> 100, isUploading |-> FALSE, cloudUrl |-> cloudUrl,
   caption |-> caption, alt |-> <<>>]

CaptionSample == <<"L","a","b"," ","C","h","a","r","t">>

ExportEntries ==
  { Entry(<<0, 0>>, NamePng, CaptionSample, PublicUrl(<<0, 1>>), PublicUrl(<<0, 1>>)),
    Entry(<<0, 1>>, NameJpg, <<>>, PublicUrl(<<0, 2>>), PublicUrl(<<0, 2>>)) }

SeqsUpTo(S, n) == UNION {[1..k -> S] : k \in 0..n}

ProjectInputs ==
  {[sections |-> s, citations |-> c] : s \in 0..MaxSections, c \in 0..MaxCitations}

\* what is dropped on the stepper in one go
SessionBatches ==
  { <<FileGood>>, <<FileWide, FileCorrupt>>, <<FileExeName, FileAtLimits, FileGood>> }

\* the batches given to one call of processFiles
IntakeBatches ==
  { <<FileGood>>,
    <<FileHalfway, FileExeName>>,
    <<FileOversized, FileWide, FileGif>>,
    <<FileSliver, FileBatName, FileCorrupt, FileBigGif>>,
    <<FileGif, FileOversized, FileBatName, FileAtLimits, FileCorrupt, FileBigGif>> }

\* the lengths of the list an intake call finds
ExistingCounts == {0, 8, 11}

\* the list and the blob URLs after one earlier batch of n good files, taken in
\* before the clock starts
ExistingFiles(h, cloudAvailable, n) ==
  LET metadata == StepperImageMeta(NamePng, FormBiology)
      finished(k, src, cloudUrl) ==
        [Entry(FileId(k - 1 - n, k - 1), NamePng, metadata.caption, src, cloudUrl)
           EXCEPT !.alt = metadata.alt]
  IN [k \in 1..n |->
        IF h = "stepper" /\ cloudAvailable
        THEN finished(k, PublicUrl(<<0, k>>), PublicUrl(<<0, k>>))
        ELSE finished(k, BlobUrl(2 * k), IF cloudAvailable THEN BlobUrl(2 * k) ELSE EmptyUrl)]

ExistingBlobs(h, cloudAvailable, n) ==
  IF h = "stepper" /\ cloudAvailable THEN [k \in 1..n |-> 0] ELSE [k \in 1..(2 * n) |-> 0]

NoErrors == [errors |-> <<>>, timers |-> 0]
NoResult == [done |-> FALSE]

ExportIdle ==
  /\ pdf = PdfIdle([sections |-> 0, citations |-> 0], <<>>)
  /\ pptx = PptxIdle([sections |-> 0, citations |-> 0], <<>>)
HarnessIdle == arg = Null /\ ret = NoResult

\* ProjectStepper after construction: useState(1); onGenerate not called yet
StepperIdle == [currentStep |-> 1, generated |-> <<>>]

\* the value of a list-valued state: a list, or undefined
Defined(list) == [defined |-> TRUE, list |-> list]
Undefined == [defined |-> FALSE, list |-> <<>>]

\* Dashboard after construction (useState lines 77-89); png is the run of
\* exportToPNG, upload the call of handleFileUpload, inflight the formats whose
\* handleExport has not reached its finally, crashed a render that threw
DashIdle ==
  [aiOutput |-> [generated |-> FALSE, report |-> [sections |-> 0, citations |-> 0]],
   activeTab |-> "report", mediaFiles |-> Defined(<<>>), isExporting |-> "null",
   png |-> "idle", started |-> {}, inflight |-> {}, alerts |-> <<>>,
   upload |-> [pc |-> "idle", files |-> <<>>, errors |-> <<>>], crashed |-> FALSE]

PagesIdle == stepper = StepperIdle /\ dash = DashIdle

(***************************************************************************)
(* Spec: a session of one media owner (the stepper with its gallery, or    *)
(* the workspace with its uploader) from its construction: one batch is    *)
(* dropped, and the user works on the list once it has been taken in.      *)
(***************************************************************************)
Init ==
  /\ PagesIdle
  /\ host \in {"stepper", "workspace"}
  /\ cloud \in BOOLEAN
  /\ now = 0
  /\ formData = FormBiology
  /\ mediaFiles = <<>>
  /\ mounted = TRUE
  /\ blobs = <<>>
  /\ calls = <<>>
  /\ shown = NoErrors
  /\ layout = LayoutInit
  /\ last = [op |-> "none"]
  /\ ExportIdle /\ HarnessIdle

IntakeStep ==
  \E b \in 1..MaxCalls :
    \/ ImageResolves(b)
    \/ ImageRejects(b)
    \/ ModerationResolves(b)
    \/ UploadTick(b)
    \/ UploadSucceeds(b)
    \/ UploadFails(b)
    \/ LocalTick(b)
    \/ LeftoverTick(b)
    \/ MetadataResolves(b)
    \/ UploaderImageLoads(b)
    \/ UploaderImageFails(b)
    \/ UploaderMetaResolves(b)

GalleryStep ==
  \/ \E id \in Ids(mediaFiles) :
       \/ HandleDragStart(id)
       \/ HandleDrop(id)
       \/ RemoveFile(id)
       \/ StartEditingAlt(id)
       \/ SaveAltText(id)
       \/ UploaderRemoveFile(id)
  \/ \E text \in AltInputs : SetTempAltText(text)
  \/ HandleDragEnd
  \/ CancelEditingAlt
  \/ ToggleAutoPlace

\* no batch is being taken in and no progress interval is running
Quiescent ==
  \A b \in DOMAIN calls :
    calls[b].pc = "done" /\ calls[b].timers = {} /\ calls[b].leaked = {}

Next ==
  \/ \E files \in SessionBatches : Len(calls) = 0 /\ StepperProcessFiles(files)
  \/ \E files \in SessionBatches : Len(calls) = 0 /\ UploaderProcessFiles(files)
  \/ IntakeStep
  \/ Quiescent /\ GalleryStep
  \/ ErrorsExpire
  \/ Unmount

Spec == Init /\ [][Next]_vars

(***************************************************************************)
(* SpecIntake: one call of processFiles on a list that an earlier batch    *)
(* has filled.                                                             *)
(***************************************************************************)
InitIntake ==
  /\ PagesIdle
  /\ host \in {"stepper", "workspace"}
  /\ cloud \in BOOLEAN
  /\ now = 0
  /\ formData = FormBiology
  /\ \E n \in ExistingCounts :
       /\ mediaFiles = ExistingFiles(host, cloud, n)
       /\ blobs = ExistingBlobs(host, cloud, n)
  /\ mounted = TRUE
  /\ calls = <<>>
  /\ shown = NoErrors
  /\ layout = LayoutInit
  /\ last = [op |-> "none"]
  /\ ExportIdle /\ HarnessIdle

NextIntake ==
  \/ \E files \in IntakeBatches : Len(calls) = 0 /\ StepperProcessFiles(files)
  \/ \E files \in IntakeBatches : Len(calls) = 0 /\ UploaderProcessFiles(files)
  \/ IntakeStep
  \/ ErrorsExpire
  \/ ClockTick

SpecIntake == InitIntake /\ [][NextIntake]_vars

(***************************************************************************)
(* SpecRace: the stepper with eleven entries in its list; a second batch   *)
(* may be dropped while the first is still being processed.                *)
(***************************************************************************)
RaceBatches == { <<FileGood>>, <<FileCorrupt>>, <<FileGood, FileAtLimits>> }

InitRace ==
  /\ PagesIdle
  /\ host = "stepper"
  /\ cloud \in BOOLEAN
  /\ now = 0
  /\ formData = FormBiology
  /\ mediaFiles = ExistingFiles(host, cloud, MaxFiles - 1)
  /\ blobs = ExistingBlobs(host, cloud, MaxFiles - 1)
  /\ mounted = TRUE
  /\ calls = <<>>
  /\ shown = NoErrors
  /\ layout = LayoutInit
  /\ last = [op |-> "none"]
  /\ ExportIdle /\ HarnessIdle

StepperIntakeStep ==
  \E b \in 1..MaxCalls :
    \/ ImageResolves(b)
    \/ ImageRejects(b)
    \/ ModerationResolves(b)
    \/ UploadTick(b)
    \/ UploadSucceeds(b)
    \/ UploadFails(b)
    \/ LocalTick(b)
    \/ LeftoverTick(b)
    \/ MetadataResolves(b)

NextRace ==
  \/ \E files \in RaceBatches : StepperProcessFiles(files)
  \/ StepperIntakeStep
  \/ ErrorsExpire
  \/ ClockTick
  \/ Unmount

SpecRace == InitRace /\ [][NextRace]_vars

(***************************************************************************)
(* SpecPlacement: getSectionPlacement applied to a caption.                *)
(***************************************************************************)
MaxFragments == 3

\* the pieces captions are made of: keywords of the three branches in several
\* letter cases, a keyword cut short, and filler
CaptionFragments ==
  { <<"c","h","a","r","t">>, <<"C","h","a","r","t">>, <<"C","H","A","R","T">>, <<"c","h","a","r">>, <<"I","n","t","r","o">>, <<"o","v","e","r","v","i","e","w">>,
    <<"M","E","T","H","O","D">>, <<"P","r","o","c","e","s","s">>, <<"A","p","p","r","o","a","c","h">>, <<"D","a","t","a">>, <<" ">>, <<"t">>, <<"L","a","b">> }

CaptionInputs == {Concat(fs) : fs \in SeqsUpTo(CaptionFragments, MaxFragments)}

SessionIdle ==
  /\ host = "stepper" /\ cloud = FALSE /\ now = 0 /\ formData = FormBiology
  /\ mediaFiles = <<>> /\ mounted = TRUE /\ blobs = <<>> /\ calls = <<>>
  /\ shown = NoErrors /\ layout = LayoutInit

InitPlacement ==
  /\ PagesIdle
  /\ SessionIdle
  /\ last = [op |-> "none"]
  /\ ExportIdle
  /\ arg \in CaptionInputs
  /\ ret = NoResult

\* getSectionPlacement(caption) returns
Classify ==
  /\ ~ret.done
  /\ ret' = [done |-> TRUE, value |-> GetSectionPlacement(arg)]
  /\ UNCHANGED <<sessionVars, last, pdf, pptx, arg, stepper, dash>>

NextPlacement == Classify

SpecPlacement == InitPlacement /\ [][NextPlacement]_vars

HasKeyword(caption, keywords) ==
  \E kw \in keywords : Includes(ToLowerCase(caption), kw)

\* C10 (as stated): every caption that contains "chart" in any letter case is
\* classified as "results", whatever else it contains.
C10_ChartAlwaysResults ==
  (ret.done /\ HasKeyword(arg, {KwChart})) => ret.value = "results"

\* C10 (amended): a caption that contains "chart" in any letter case and none of
\* intro, background, overview, method, approach, process is classified as
\* "results"; with one of the first three it is "introduction", and otherwise
\* with one of the last three it is "methodology".
C10_ChartResultsUnlessEarlierKeyword ==
  (ret.done /\ HasKeyword(arg, {KwChart})) =>
    ret.value = IF HasKeyword(arg, IntroKeywords) THEN "introduction"
                ELSE IF HasKeyword(arg, MethodKeywords) THEN "methodology"
                ELSE "results"

\* a caption with "Chart" in mixed case and filler, and no earlier keyword, has
\* been classified
C10_Witness ==
  /\ ret.done
  /\ arg = <<"L","a","b"," ","C","H","A","R","T">>
  /\ ret.value = "results"

\* C11 (as stated): every caption that contains "approach" in any letter case is
\* classified as "methodology", whatever else it contains.
C11_ApproachAlwaysMethodology ==
  (ret.done /\ HasKeyword(arg, {KwApproach})) => ret.value = "methodology"

\* C11 (amended): a caption that contains "approach" in any letter case is
\* classified as "methodology" unless it also contains intro, background or
\* overview, and then it is classified as "introduction".
C11_ApproachMethodologyUnlessIntro ==
  (ret.done /\ HasKeyword(arg, {KwApproach})) =>
    ret.value = IF HasKeyword(arg, IntroKeywords) THEN "introduction"
                ELSE "methodology"

\* a caption with "Approach" and "Chart", and no introduction keyword, has been
\* classified as "methodology"
C11_Witness ==
  /\ ret.done
  /\ arg = <<"C","h","a","r","t"," ","A","p","p","r","o","a","c","h">>
  /\ ret.value = "methodology"

\* a caption with "Intro" before "Approach" has been classified as "introduction"
C11_WitnessIntro ==
  /\ ret.done
  /\ arg = <<"I","n","t","r","o"," ","A","p","p","r","o","a","c","h">>
  /\ ret.value = "introduction"

AllKeywords == IntroKeywords \cup MethodKeywords \cup ResultKeywords

\* C12: getSectionPlacement returns one of introduction, methodology, results for
\* every caption; the result is decided by the keywords the caption contains as
\* substrings, whatever their letter case; a caption with none of the ten
\* keywords is classified as "results".
C12_PlacementTotalAndDefault ==
  ret.done =>
    /\ ret.value \in {"introduction", "methodology", "results"}
    /\ ret.value = "introduction" <=> HasKeyword(arg, IntroKeywords)
    /\ ret.value = "methodology" <=>
         (~HasKeyword(arg, IntroKeywords) /\ HasKeyword(arg, MethodKeywords))
    /\ ~HasKeyword(arg, AllKeywords) => ret.value = "results"

\* a caption with a keyword cut short ("char") and no keyword has been classified
\* as "results"
C12_Witness ==
  /\ ret.done
  /\ arg = <<"L","a","b"," ","c","h","a","r">>
  /\ ~HasKeyword(arg, AllKeywords)
  /\ ret.value = "results"

\* a caption with a keyword in capitals has been classified by it
C12_WitnessCapitals ==
  /\ ret.done
  /\ arg = <<"M","E","T","H","O","D">>
  /\ ret.value = "methodology"

(***************************************************************************)
(* SpecDrop: the gallery of the stepper on a list of finished entries; the *)
(* user drags, drops and removes entries.                                  *)
(***************************************************************************)
MaxDropList == 3

InitDrop ==
  /\ PagesIdle
  /\ host = "stepper"
  /\ cloud \in BOOLEAN
  /\ now = 0
  /\ formData = FormBiology
  /\ \E n \in 1..MaxDropList :
       /\ mediaFiles = ExistingFiles(host, cloud, n)
       /\ blobs = ExistingBlobs(host, cloud, n)
  /\ mounted = TRUE
  /\ calls = <<>>
  /\ shown = NoErrors
  /\ layout = LayoutInit
  /\ last = [op |-> "none"]
  /\ ExportIdle /\ HarnessIdle

NextDrop ==
  \/ \E id \in Ids(mediaFiles) : HandleDragStart(id)
  \/ \E id \in Ids(mediaFiles) : HandleDrop(id)
  \/ \E id \in Ids(mediaFiles) : RemoveFile(id)
  \/ HandleDragEnd
  \/ ToggleAutoPlace

SpecDrop == InitDrop /\ [][NextDrop]_vars

\* the last handler run was handleDrop, with both ids distinct and in the list
DropMoves ==
  /\ last.op = "handleDrop"
  /\ last.dragged # Null
  /\ last.dragged # last.target
  /\ FindIndex(last.before, last.dragged) > 0
  /\ FindIndex(last.before, last.target) > 0

\* C7: handleDrop with a dragged entry and a distinct target, both in the list,
\* leaves a list of the same length with the dragged entry at the index the target
\* had, and the other entries in their original order; when nothing is dragged,
\* dragged and target are the same, or an id is not in the list, the list is as
\* it was.
C7_DropIsPermutation ==
  last.op = "handleDrop" =>
    LET draggedIndex == FindIndex(last.before, last.dragged)
        targetIndex == FindIndex(last.before, last.target)
    IN IF DropMoves
       THEN /\ last.reordered
            /\ Len(mediaFiles) = Len(last.before)
            /\ mediaFiles[targetIndex] = last.before[draggedIndex]
            /\ RemoveAt(mediaFiles, targetIndex) = RemoveAt(last.before, draggedIndex)
       ELSE /\ ~last.reordered
            /\ mediaFiles = last.before

\* the first of three entries has been dropped on the third
C7_Witness ==
  /\ DropMoves
  /\ Len(last.before) = 3
  /\ FindIndex(last.before, last.dragged) = 1
  /\ FindIndex(last.before, last.target) = 3
  /\ mediaFiles = <<last.before[2], last.before[3], last.before[1]>>

\* an entry was dragged, removed, and then a drop was made on another entry
C7_WitnessAbsent ==
  /\ last.op = "handleDrop"
  /\ last.dragged # Null
  /\ FindIndex(last.before, last.dragged) = 0
  /\ mediaFiles = last.before

(***************************************************************************)
(* SpecPdf: one call of exportToPDF on a project and a media list.         *)
(***************************************************************************)
InitPdf ==
  /\ PagesIdle
  /\ SessionIdle
  /\ last = [op |-> "none"]
  /\ HarnessIdle
  /\ \E project \in ProjectInputs, media \in SeqsUpTo(ExportEntries, MaxExportMedia) :
       pdf = PdfIdle(project, media)
  /\ pptx = PptxIdle([sections |-> 0, citations |-> 0], <<>>)

NextPdf ==
  \/ ExportToPDF
  \/ PdfFigureDrawn
  \/ PdfFigureUnreadable
  \/ PdfFigureNotEmbedded

SpecPdf == InitPdf /\ [][NextPdf]_vars

\* the texts drawn that begin with "Figure "
FigureCaptionsDrawn ==
  SelectSeq(pdf.out, LAMBDA call : call.op = "text" /\ Head(call.text) = "Figure ")

FiguresHeadingsDrawn ==
  SelectSeq(pdf.out, LAMBDA call : call = Text(<<"Figures">>))

\* C8: a finished PDF export of an empty media list has no "Figures" heading; of
\* N >= 1 media files it has exactly N figure captions, Figure 1 .. Figure N in the
\* order of the list, each with the entry's caption or else its file name,
\* whatever the outcome of reading and embedding each image.
C8_FigureCaptionsComplete ==
  pdf.pc = "done" =>
    /\ Len(pdf.media) = 0 => Len(FiguresHeadingsDrawn) = 0
    /\ Len(pdf.media) >= 1 =>
         FigureCaptionsDrawn =
           [k \in 1..Len(pdf.media) |->
              Text(<<"Figure ", k, ": ",
                     IF Len(pdf.media[k].caption) > 0 THEN pdf.media[k].caption
                     ELSE pdf.media[k].file.name>>)]

\* an export of two media files has finished with the first image unreadable or
\* not embedded: the only caption drawn is that of Figure 2
C8_WitnessGap ==
  /\ pdf.pc = "done"
  /\ Len(pdf.media) = 2
  /\ Len(FigureCaptionsDrawn) = 1
  /\ FigureCaptionsDrawn[1].text[2] = 2

(***************************************************************************)
(* Claims on the intake                                                    *)
(***************************************************************************)
\* C1: whatever batches the stepper takes in, also a second one started while
\* the first is being processed, its media list never holds more than 12
\* entries.
C1_ListWithinLimit ==
  host = "stepper" => Len(mediaFiles) <= 12

\* two batches were started on the same list of eleven entries and both have
\* handed over their entry
C1_WitnessRace ==
  /\ host = "stepper"
  /\ Len(calls) = 2
  /\ Len(calls[1].existing) = 11 /\ Len(calls[2].existing) = 11
  /\ Len(mediaFiles) = 13

\* C2: a call with existingFiles.length + files.length > 12 calls onError exactly
\* once, with a message that states 12 - existingFiles.length as the number of
\* files that can be added, handles no file, and calls neither onProgress nor
\* onComplete.
C2_OverLimitRejectedWhole ==
  \A b \in DOMAIN calls :
    LET c == calls[b] IN
    Len(c.existing) + Len(c.files) > 12 =>
      /\ c.pc = "done"
      /\ Len(c.onError) = 1
      /\ c.onError[1] = <<<<"Maximum ", 12, " files allowed. You can add ",
                            12 - Len(c.existing), " more files.">>>>
      /\ c.i = 0 /\ c.processed = Null /\ c.uploads = <<>>
      /\ c.newFiles = <<>> /\ c.errors = <<>>
      /\ c.onProgress = {}
      /\ c.onComplete = <<>>

\* six files were given to a list of eight and the message says 4
C2_Witness ==
  \E b \in DOMAIN calls :
    /\ Len(calls[b].existing) = 8
    /\ Len(calls[b].files) = 6
    /\ Len(calls[b].onError) = 1
    /\ calls[b].onError[1][1][4] = 4
    /\ mediaFiles = calls[b].existing

\* the file of the batch that an entry of the call was made of: ids end in the
\* index of the file
FileOf(c, entry) == c.files[entry.id[2] + 1]

Rejectable(file) ==
  \/ file.size > 10 * 1024 * 1024
  \/ file.type \notin {"image/jpeg", "image/jpg", "image/png", "image/webp"}
  \/ \E ext \in SuspiciousExtensions : Includes(ToLowerCase(file.name), ext)

\* C3: on both intake paths, a file that is oversized, of a type other than
\* JPEG/PNG/WebP, or with a blocklisted extension in its name is never made an
\* entry, and once the call is over a message naming it has been reported.
C3_RejectableNeverAccepted ==
  \A b \in DOMAIN calls :
    LET c == calls[b] IN
    /\ \A k \in DOMAIN c.newFiles : ~Rejectable(FileOf(c, c.newFiles[k]))
    /\ (c.pc = "done" /\ Len(c.existing) + Len(c.files) <= 12) =>
         \A i \in DOMAIN c.files :
           Rejectable(c.files[i]) =>
             \E k \in DOMAIN c.errors :
               c.errors[k].name = c.files[i].name /\ c.errors[k].tail # ""

\* the uploader has put a file named x.Exe.png into the list
C3_WitnessUploader ==
  /\ host = "workspace"
  /\ \E k \in DOMAIN mediaFiles : mediaFiles[k].file.name = NameExePng

\* the entries processAndUploadFiles has handed to onComplete in call c
Delivered(c) == UNION {Range(c.onComplete[k]) : k \in DOMAIN c.onComplete}

\* C6: every entry processAndUploadFiles hands to onComplete has a non-empty src,
\* isUploading = false and uploadProgress = 100: src = cloudUrl = the public URL
\* returned when its upload succeeded; a local blob URL and no cloudUrl when its
\* upload failed, or when there is no remote client, and then no upload was
\* attempted.
C6_DeliveredEntryUsable ==
  host = "stepper" =>
    \A b \in DOMAIN calls : \A e \in Delivered(calls[b]) :
      LET attempts == {u \in Range(calls[b].uploads) : u.id = e.id} IN
      /\ e.src # EmptyUrl
      /\ e.isUploading = FALSE
      /\ e.uploadProgress = 100
      /\ IF cloud
         THEN /\ Cardinality(attempts) = 1
              /\ \A u \in attempts :
                   IF u.ok
                   THEN e.src = u.url /\ e.cloudUrl = u.url /\ u.url.scheme = "https"
                   ELSE e.src.scheme = "blob" /\ e.cloudUrl = EmptyUrl
         ELSE /\ attempts = {}
              /\ e.src.scheme = "blob" /\ e.cloudUrl = EmptyUrl

\* with a remote client, a call has handed over an entry whose upload failed
C6_Witness ==
  /\ host = "stepper" /\ cloud
  /\ \E b \in DOMAIN calls : \E e \in Delivered(calls[b]) :
       /\ \E u \in Range(calls[b].uploads) : u.id = e.id /\ ~u.ok
       /\ e.src.scheme = "blob"
       /\ e.uploadProgress = 100

\* C9: every entry accepted on either intake path has width <= 2000 and
\* aspectRatio = width / height; processImage keeps the natural dimensions of an
\* image at most 2000 wide and otherwise returns width 2000 and height
\* round(2000 * naturalHeight / naturalWidth).
C9_AcceptedWithinWidth ==
  \A b \in DOMAIN calls :
    LET c == calls[b] IN
    /\ \A k \in DOMAIN c.newFiles :
         /\ c.newFiles[k].width <= 2000
         /\ c.newFiles[k].aspectRatio = [num |-> c.newFiles[k].width,
                                        den |-> c.newFiles[k].height]
    /\ (host = "stepper" /\ c.pc = "moderate") =>
         LET file == c.files[c.i] IN
         IF file.naturalWidth <= 2000
         THEN c.processed.width = file.naturalWidth
              /\ c.processed.height = file.naturalHeight
         ELSE c.processed.width = 2000
              /\ c.processed.height =
                   (2 * 2000 * file.naturalHeight + file.naturalWidth)
                     \div (2 * file.naturalWidth)

\* the uploader has accepted an image 3000 wide as it is
C9_WitnessUploaderWide ==
  /\ host = "workspace"
  /\ \E k \in DOMAIN mediaFiles : mediaFiles[k].width = 3000

\* processImage has returned 2000 x 987 for an image of 2080 x 1027
C9_WitnessHalfway ==
  /\ host = "stepper"
  /\ \E b \in DOMAIN calls :
       /\ calls[b].pc = "moderate"
       /\ calls[b].files[calls[b].i].naturalWidth = 2080
       /\ calls[b].processed.height = 987

(***************************************************************************)
(* Claims on the blob URLs of a session                                    *)
(***************************************************************************)
IsLocalEntry(e) == e.src.scheme = "blob" /\ e.cloudUrl = EmptyUrl

\* C4: the local blob URL of a removed entry is revoked exactly once: at the
\* removal, and not before or after it.
C4_RemovedBlobRevokedOnce ==
  (last.op = "removeFile" /\ IsLocalEntry(last.removed)) =>
    blobs[last.removed.src.n[1]] = 1

\* a local entry has been removed and its URL has been revoked twice
C4_WitnessRevokedTwice ==
  /\ last.op = "removeFile" /\ IsLocalEntry(last.removed)
  /\ blobs[last.removed.src.n[1]] = 2

\* C5: while its owner is mounted, the src of every entry in the media list is a
\* remote URL or a local blob URL that has not been revoked.
C5_InListSrcNotRevoked ==
  mounted =>
    \A k \in DOMAIN mediaFiles :
      LET e == mediaFiles[k] IN
      e.isUploading = FALSE =>
        /\ e.src # EmptyUrl
        /\ e.src.scheme = "blob" => blobs[e.src.n[1]] = 0

\* an entry is in the list of a mounted owner and its blob URL has been revoked
C5_WitnessRevokedInList ==
  /\ mounted
  /\ \E k \in DOMAIN mediaFiles :
       /\ IsLocalEntry(mediaFiles[k])
       /\ blobs[mediaFiles[k].src.n[1]] > 0

(***************************************************************************)
(* SpecCaption: generateImageMeta of one of the three components applied   *)
(* to a file name and a project context, once or several times.            *)
(***************************************************************************)
\* calls of generateImageMeta on one input
MaxRepeats == 2

NameLabResults == <<"l","a","b","-","r","e","s","u","l","t","s","_","v","2",".","p","n","g">>

CaptionFilenames ==
  { NameLabResults, <<"L","A","B","-","R","E","S","U","L","T","S","_","V","2",".","P","N","G">>, NamePng, NameJpg, NameExePng,
    <<"n","o","t","e","s">>, <<"c","e","l","l","-","d","i","v","i","s","i","o","n","_","u","n","d","e","r","-","t","h","e","-","m","i","c","r","o","s","c","o","p","e","_","s","e","r","i","e","s","_","t","h","r","e","e","_","f","i","n","a","l",".","w","e","b","p">> }

CaptionSubjects == { <<>>, <<"B","i","o","l","o","g","y">>, <<"M","o","l","e","c","u","l","a","r"," ","B","i","o","l","o","g","y">> }

CaptionIdeas == { <<>>, <<"C","e","l","l","s">> }

Generators == {"ProjectStepper", "MediaUploader", "Dashboard"}

InitCaption ==
  /\ PagesIdle
  /\ SessionIdle
  /\ last = [op |-> "none"]
  /\ ExportIdle
  /\ \E g \in Generators, filename \in CaptionFilenames,
        subject \in CaptionSubjects, idea \in CaptionIdeas :
       arg = [generator |-> g, filename |-> filename,
              form |-> [projectIdea |-> idea, subject |-> subject, steps |-> <<>>]]
  /\ ret = [done |-> FALSE, returned |-> 0, all |-> {}]

ImageMeta(generator, filename, form) ==
  IF generator = "ProjectStepper" THEN StepperImageMeta(filename, form)
  ELSE IF generator = "MediaUploader" THEN UploaderImageMeta(filename, form)
  ELSE DashboardImageMeta(filename, form)

\* await generateImageMeta(filename, projectContext) returns; ret.all keeps every
\* result the calls on this input have returned
GenerateImageMeta ==
  /\ ret.returned < MaxRepeats
  /\ LET metadata == ImageMeta(arg.generator, arg.filename, arg.form)
     IN ret' = [done |-> TRUE, value |-> metadata, returned |-> ret.returned + 1,
                all |-> ret.all \cup {metadata}]
  /\ UNCHANGED <<sessionVars, last, pdf, pptx, arg, stepper, dash>>

NextCaption == GenerateImageMeta

SpecCaption == InitCaption /\ [][NextCaption]_vars

C13_WitnessStepper ==
  /\ ret.done
  /\ arg.generator = "ProjectStepper"
  /\ arg.filename = <<"l","a","b","-","r","e","s","u","l","t","s","_","v","2",".","p","n","g">>
  /\ arg.form.subject = <<"B","i","o","l","o","g","y">>
  /\ ret.value.caption = <<"L","a","b"," ","R","e","s","u","l","t","s"," ","V","2"," ","i","n"," ","B","i","o","l","o","g","y"," ","R","e","s","e","a","r","c","h">>

(***************************************************************************)
(* Claims on the errors of a batch                                         *)
(***************************************************************************)
\* the file is turned away before any upload: by the validator, by the decoder,
\* or by the encoder for a canvas without pixels
FailsBeforeUpload(file) ==
  \/ Rejectable(file)
  \/ ~file.decodes
  \/ file.naturalWidth = 0 \/ file.naturalHeight = 0
  \/ file.naturalWidth > 2000 /\ 2 * 2000 * file.naturalHeight < file.naturalWidth

\* the call has run its loop to the end
LoopOver(c) == c.pc \in {"meta", "done"} /\ Len(c.existing) + Len(c.files) <= 12

\* C14: a failed upload adds no message to the error list of its batch and causes
\* no onError call: the messages of a finished batch are those of the files
\* turned away before any upload, onError is called only for them, and the file
\* whose upload failed has been handed to onComplete with a local blob URL as src.
C14_FailedUploadSilent ==
  host = "stepper" =>
    \A b \in DOMAIN calls :
      LET c == calls[b]
          turnedAway == {i \in DOMAIN c.files : FailsBeforeUpload(c.files[i])}
      IN /\ \A k \in DOMAIN c.errors : c.errors[k].tail # ": Upload failed"
         /\ LoopOver(c) =>
              /\ Len(c.errors) = Cardinality(turnedAway)
              /\ c.onError = IF turnedAway = {} THEN <<>> ELSE <<c.errors>>
              /\ \A u \in Range(c.uploads) :
                   ~u.ok => \E e \in Delivered(c) :
                              /\ e.id = u.id
                              /\ e.src.scheme = "blob"
                              /\ e.cloudUrl = EmptyUrl

\* a batch of one good file is over, its upload failed, nothing was reported and
\* nothing is shown
C14_Witness ==
  /\ host = "stepper" /\ cloud
  /\ \E b \in DOMAIN calls :
       /\ calls[b].pc = "done"
       /\ Len(calls[b].files) = 1
       /\ \E u \in Range(calls[b].uploads) : ~u.ok
       /\ calls[b].errors = <<>> /\ calls[b].onError = <<>>
       /\ Len(calls[b].onComplete) = 1
       /\ shown.errors = <<>>
       /\ mediaFiles[Len(mediaFiles)].src.scheme = "blob"

\* the n-th smallest element of a set of numbers
NthOf(S, n) == CHOOSE k \in S : Cardinality({m \in S : m < k}) = n - 1

C16_CreatedReferencesReleased ==
  (~mounted /\ Quiescent) => \A k \in DOMAIN blobs : blobs[k] > 0

\* the stepper has taken in one image with its upload succeeded and has
\* unmounted; the URL processImage made for decoding it is still not revoked
C16_WitnessDecoderUrlLeft ==
  /\ host = "stepper" /\ cloud /\ ~mounted /\ Quiescent
  /\ Len(mediaFiles) = 1 /\ mediaFiles[1].src.scheme = "https"
  /\ Len(blobs) = 1 /\ blobs[1] = 0

(***************************************************************************)
(* SpecInterleave: a media owner with one entry in its list; batches are    *)
(* dropped and entries are removed while earlier batches are taken in.     *)
(***************************************************************************)
InterleaveBatches == { <<FileGood>>, <<FileCorrupt>> }

InterleaveCounts == {1}

InitInterleave ==
  /\ PagesIdle
  /\ host \in {"stepper", "workspace"}
  /\ cloud \in BOOLEAN
  /\ now = 0
  /\ formData = FormBiology
  /\ \E n \in InterleaveCounts :
       /\ mediaFiles = ExistingFiles(host, cloud, n)
       /\ blobs = ExistingBlobs(host, cloud, n)
  /\ mounted = TRUE
  /\ calls = <<>>
  /\ shown = NoErrors
  /\ layout = LayoutInit
  /\ last = [op |-> "none"]
  /\ ExportIdle /\ HarnessIdle

NextInterleave ==
  \/ \E files \in InterleaveBatches : StepperProcessFiles(files)
  \/ \E files \in InterleaveBatches : UploaderProcessFiles(files)
  \/ IntakeStep
  \/ \E id \in Ids(mediaFiles) : RemoveFile(id)
  \/ \E id \in Ids(mediaFiles) : UploaderRemoveFile(id)
  \/ ErrorsExpire

SpecInterleave == InitInterleave /\ [][NextInterleave]_vars

\* the two entries are the same entry of the list
SameEntry(e, f) == e.id = f.id /\ e.src = f.src

\* C17: no step loses or brings back an entry: but for a removal, every entry of
\* the list is in the list after the step, and every entry that is new in the
\* list is an entry made by a batch that was in flight.  This holds for the list
\* of ProjectStepper and for the list of MediaUploader.
C17_NoUpdateLost ==
  [][LET removal == /\ last'.op = "removeFile"
                    /\ mediaFiles' = WithoutId(mediaFiles, last'.id)
         inFlight == {b \in DOMAIN calls : calls[b].pc # "done"}
     IN /\ ~removal =>
             \A k \in DOMAIN mediaFiles :
               \E m \in DOMAIN mediaFiles' : SameEntry(mediaFiles[k], mediaFiles'[m])
        /\ \A m \in DOMAIN mediaFiles' :
             \/ \E k \in DOMAIN mediaFiles : SameEntry(mediaFiles[k], mediaFiles'[m])
             \/ \E b \in inFlight : \E e \in Range(calls'[b].newFiles) :
                  SameEntry(e, mediaFiles'[m])
    ]_vars

\* an entry that was removed from the uploader's list while a batch was in flight
\* is in the list again
C17_WitnessBroughtBack ==
  /\ host = "workspace"
  /\ last.op = "removeFile"
  /\ \E k \in DOMAIN mediaFiles : SameEntry(mediaFiles[k], last.removed)

(***************************************************************************)
(* SpecPptx: one call of exportToPPTX on a project and a media list.       *)
(***************************************************************************)
\* media entries handed to the slide export
MaxDeckMedia == 7

\* a list of n finished entries, every second one without a caption
DeckMedia(n) ==
  [k \in 1..n |->
     IF k % 2 = 1
     THEN Entry(<<0, k - 1>>, NamePng, CaptionSample, PublicUrl(<<0, k>>), PublicUrl(<<0, k>>))
     ELSE Entry(<<0, k - 1>>, NameJpg, <<>>, PublicUrl(<<0, k>>), PublicUrl(<<0, k>>))]

InitPptx ==
  /\ PagesIdle
  /\ SessionIdle
  /\ last = [op |-> "none"]
  /\ HarnessIdle
  /\ pdf = PdfIdle([sections |-> 0, citations |-> 0], <<>>)
  /\ \E project \in ProjectInputs, n \in 0..MaxDeckMedia :
       pptx = PptxIdle(project, DeckMedia(n))

NextPptx ==
  \/ ExportToPPTX
  \/ PptxImageAdded
  \/ PptxImageUnreadable
  \/ PptxImageNotEmbedded
  \/ PptxWritten
  \/ PptxWriteFails

SpecPptx == InitPptx /\ [][NextPptx]_vars

\* the export has called pptx.writeFile
DeckBuilt == pptx.pc \in {"writing", "done", "failed"}

\* the calls on a slide that stand for a media item: an image, or a placeholder
Tiles(slide) ==
  SelectSeq(slide.ops,
            LAMBDA o : \/ o.op = "addImage"
                       \/ o.op = "addText" /\ Head(o.text) = "[Image: ")

PlaceholderOf(mediaFile, x, y) ==
  [op |-> "addText", text |-> <<"[Image: ", mediaFile.file.name, "]">>, x |-> x, y |-> y]

C19_FailedImagePlaceholder ==
  LET S == pptx.project.sections
      N == Len(pptx.media)
      R == IF pptx.project.citations >= 1 THEN 1 ELSE 0
  IN /\ \A g \in DOMAIN pptx.outcomes :
          LET slide == pptx.slides[1 + S + (g - 1) \div 6 + 1]
              j == (g - 1) % 6
              x == 8 + 32 * (j % 3)
              y == 15 + 28 * (j \div 3)
              image == [op |-> "addImage", data |-> g - 1, x |-> x, y |-> y]
              shownCaption == IF Len(pptx.media[g].caption) > 0
                              THEN pptx.media[g].caption ELSE pptx.media[g].file.name
              caption == [op |-> "addText", text |-> shownCaption, x |-> x, y |-> y + 22]
              placeholder == PlaceholderOf(pptx.media[g], x, y)
          IN IF pptx.outcomes[g]
             THEN /\ image \in Range(slide.ops) /\ caption \in Range(slide.ops)
                  /\ placeholder \notin Range(slide.ops)
             ELSE /\ placeholder \in Range(slide.ops)
                  /\ image \notin Range(slide.ops) /\ caption \notin Range(slide.ops)
     /\ pptx.pc \in {"idle", "reading", "writing", "done", "failed"}
     /\ pptx.pc = "reading" <=> (pptx.slides # <<>> /\ Len(pptx.outcomes) < N)
     /\ DeckBuilt =>
          /\ Len(pptx.outcomes) = N
          /\ Len(pptx.slides) = 1 + S + (N + 5) \div 6 + R
          /\ R = 1 => pptx.slides[Len(pptx.slides)].kind = "references"

\* a deck of seven items has been written although the second and the seventh
\* image failed: two placeholders, five slides
C19_Witness ==
  /\ pptx.pc = "done"
  /\ pptx.project = [sections |-> 1, citations |-> 1]
  /\ pptx.outcomes = <<TRUE, FALSE, TRUE, TRUE, TRUE, TRUE, FALSE>>
  /\ Len(pptx.slides) = 5
  /\ Tiles(pptx.slides[4]) = <<PlaceholderOf(pptx.media[7], 8, 15)>>
  /\ pptx.slides[5].kind = "references"

(***************************************************************************)
(* Claims on the progress reports                                          *)
(***************************************************************************)
\* C20: every progress value processAndUploadFiles has reported through
\* onProgress, and every uploadProgress of an entry of the media list, lies in
\* 0..100, with and without a remote client.
C20_ProgressWithinRange ==
  host = "stepper" =>
    /\ \A b \in DOMAIN calls : \A report \in calls[b].onProgress :
         report[2] >= 0 /\ report[2] <= 100
    /\ \A k \in DOMAIN mediaFiles :
         mediaFiles[k].uploadProgress >= 0 /\ mediaFiles[k].uploadProgress <= 100

\* without a remote client the interval of a file has made its last report:
\* progress 110, not uploading
C20_WitnessOvershoot ==
  /\ host = "stepper" /\ ~cloud
  /\ \E b \in DOMAIN calls :
       /\ calls[b].timers = {}
       /\ \E report \in calls[b].onProgress : report[2] = 110 /\ report[3] = FALSE

\* the entry call c has made for the file with this id is marked as not uploading
UploadOver(c, id) ==
  \E k \in DOMAIN c.newFiles : c.newFiles[k].id = id /\ ~c.newFiles[k].isUploading

\* C21: once the entry of a file is marked isUploading = false (upload succeeded,
\* fallback after a failed upload, or local-only mode), no step reports progress
\* for that file with isUploading = true.
C21_NoProgressAfterUploadOver ==
  [][\A b \in DOMAIN calls :
       \A report \in calls'[b].onProgress \ calls[b].onProgress :
         ~(report[3] /\ UploadOver(calls[b], report[1]))
    ]_vars

\* without a remote client, an entry finished with uploadProgress 100 has been
\* reported as uploading at 50 by its interval
C21_WitnessLocalTick ==
  /\ host = "stepper" /\ ~cloud
  /\ \E b \in DOMAIN calls : \E k \in DOMAIN calls[b].newFiles :
       /\ ~calls[b].newFiles[k].isUploading
       /\ <<calls[b].newFiles[k].id, 50, TRUE>> \in calls[b].onProgress

\* the batch is over, and the interval of an upload that was rejected is still
\* running
C21_WitnessIntervalLeft ==
  /\ host = "stepper" /\ cloud
  /\ \E b \in DOMAIN calls : calls[b].pc = "done" /\ calls[b].leaked # {}

(***************************************************************************)
(* SpecPdfLayout: one call of exportToPDF on a project whose texts take    *)
(* one or many lines and on media entries of several sizes.                *)
(***************************************************************************)
MaxAbstractLines == 50
MaxContentLines == 7
MaxCitationLines == 70
MaxCaptionLines == 2

TextLengths ==
  {[abstract |-> a, content |-> c, citation |-> r, caption |-> p] :
     a \in {1, MaxAbstractLines - 10, MaxAbstractLines}, c \in {1, MaxContentLines},
     r \in {1, MaxCitationLines}, p \in {1, MaxCaptionLines}}

LayoutEntry(id, width, height) ==
  [Entry(id, NamePng, CaptionSample, PublicUrl(id), PublicUrl(id))
     EXCEPT !.width = width, !.height = height, !.aspectRatio = Ratio(width, height)]

LayoutEntries ==
  { LayoutEntry(<<0, 0>>, 800, 600),
    LayoutEntry(<<0, 1>>, 100, 50),
    LayoutEntry(<<0, 2>>, 600, 2000) }

InitPdfLayout ==
  /\ PagesIdle
  /\ SessionIdle
  /\ last = [op |-> "none"]
  /\ HarnessIdle
  /\ \E project \in ProjectInputs, media \in SeqsUpTo(LayoutEntries, MaxExportMedia),
        lines \in TextLengths :
       pdf = [PdfIdle(project, media) EXCEPT !.lines = lines]
  /\ pptx = PptxIdle([sections |-> 0, citations |-> 0], <<>>)

NextPdfLayout ==
  \/ ExportToPDF
  \/ PdfFigureDrawn
  \/ PdfFigureUnreadable
  \/ PdfFigureNotEmbedded

SpecPdfLayout == InitPdfLayout /\ [][NextPdfLayout]_vars

\* the lowest line of a drawn text block
LastLine(t) == QAdd(t.y, Whole((t.lines - 1) * t.step))

BottomMargin == Whole(PageHeight - Margin)

\* C22: every text block exportToPDF draws (abstract, section titles and
\* bodies, references) has all its lines on the page, none below the bottom
\* margin.
C22_TextInsidePage ==
  \A k \in DOMAIN pdf.texts :
    pdf.texts[k].part \in {"abstract", "section", "references"} =>
      QLeq(LastLine(pdf.texts[k]), BottomMargin)

\* a forty-line abstract is followed, on the same page, by a section whose
\* seven lines of content run below the margin
C22_WitnessSectionOverflows ==
  /\ pdf.pc = "done"
  /\ pdf.lines.abstract = MaxAbstractLines - 10
  /\ \E k \in DOMAIN pdf.texts :
       /\ pdf.texts[k].what = <<"section.content", 1>>
       /\ pdf.texts[k].page = 1
       /\ QLess(BottomMargin, LastLine(pdf.texts[k]))

\* C23: every figure exportToPDF draws has a strictly positive width and
\* height, is no wider than the content width, keeps the aspect ratio of its
\* entry and lies between the page margins.
C23_FigureInsidePage ==
  \A k \in DOMAIN pdf.images :
    LET image == pdf.images[k]
        mediaFile == pdf.media[image.index]
    IN /\ QLess(Whole(0), image.width)
       /\ QLess(Whole(0), image.height)
       /\ QLeq(image.width, Whole(ContentWidth))
       /\ QDiv(image.width, image.height) = Quot(mediaFile.width, mediaFile.height)
       /\ QLeq(Whole(Margin), image.x)
       /\ QLeq(QAdd(image.x, image.width), Whole(PageWidth - Margin))
       /\ QLeq(Whole(Margin), image.y)
       /\ QLeq(QAdd(image.y, image.height), BottomMargin)

\* the third of three 800 x 600 figures is given a negative height
C23_WitnessNegativeFigure ==
  /\ Len(pdf.images) = 3
  /\ \A k \in 1..3 : pdf.media[k].width = 800 /\ pdf.media[k].height = 600
  /\ QLess(pdf.images[3].height, Whole(0))

\* the page check before a figure never adds a page
C23_FigurePageCheckNeverFires ==
  [][pdf.pc = "reading" => pdf'.page = pdf.page \/ pdf'.pc = "done"]_vars

(***************************************************************************)
(* Dashboard (part_003): the export buttons with handleExport, the tabs,   *)
(* exportToPNG and handleFileUpload.  The formats are exported at most     *)
(* once each in a session.                                                 *)
(***************************************************************************)
MaxDashboardMedia == 1

Formats == {"pdf", "pptx", "png"}
DashboardTabs == {"report", "slides", "visuals"}

\* document.getElementById('gallery-container'): AutoLayout is rendered in the
\* report tab when there is a report and the list is not empty
GalleryPresent(d) ==
  d.activeTab = "report" /\ d.aiOutput.generated /\ Len(d.mediaFiles.list) > 0

\* exportToPNG up to its await of toPng; a missing element throws
PngStart(present) == IF present THEN "rendering" ELSE "failed"

\* the state the run of a format is in
RunOf(d, p, x, format) ==
  CASE format = "pdf" -> p.pc
    [] format = "pptx" -> x.pc
    [] OTHER -> d.png

RunOver(d, p, x, format) == RunOf(d, p, x, format) \in {"done", "failed"}

\* no continuation of an await is due: a resolved await runs its continuation
\* before the next event is handled
MicrotasksDone(d, p, x) ==
  /\ d.upload.pc # "awaiting"
  /\ \A format \in d.inflight : ~RunOver(d, p, x, format)

\* alert(`Failed to export ${format.toUpperCase()}. Please try again.`)
ExportAlert(format) == <<"Failed to export ", format, ". Please try again.">>

\* the catch block of handleExport, logging only
ExportCatchLogsOnly(d, format) == d

\* the catch block of handleExport
ExportCatch(d, format) == [d EXCEPT !.alerts = Append(@, ExportAlert(format))]

\* the button of a format: disabled={isExporting === format}, and for png also
\* mediaFiles.length === 0; the buttons are shown once a project is generated
ButtonEnabled(d, format) ==
  /\ d.aiOutput.generated
  /\ d.isExporting # format
  /\ format = "png" => Len(d.mediaFiles.list) > 0

\* handleExport(format) up to its await: setIsExporting(format) and the export
\* it calls, run up to that export's first await
HandleExport(format) ==
  /\ ~dash.crashed /\ MicrotasksDone(dash, pdf, pptx)
  /\ format \notin dash.started
  /\ ButtonEnabled(dash, format)
  /\ LET report == dash.aiOutput.report
         media == dash.mediaFiles.list
     IN /\ pdf' = IF format = "pdf"
                  THEN PdfStart(PdfIdle(report, media))
                  ELSE pdf
        /\ pptx' = IF format = "pptx" THEN PptxStart(PptxIdle(report, media)) ELSE pptx
        /\ dash' = [dash EXCEPT
                      !.isExporting = format,
                      !.started = @ \cup {format},
                      !.inflight = @ \cup {format},
                      !.png = IF format = "png" THEN PngStart(GalleryPresent(dash)) ELSE @]
  /\ UNCHANGED <<sessionVars, last, arg, ret, stepper>>

\* handleExport('pdf') where a call on the document throws before the first await
HandleExportPdfThrows ==
  /\ ~dash.crashed /\ MicrotasksDone(dash, pdf, pptx)
  /\ "pdf" \notin dash.started
  /\ ButtonEnabled(dash, "pdf")
  /\ pdf' = PdfThrown(PdfIdle(dash.aiOutput.report, dash.mediaFiles.list))
  /\ dash' = [dash EXCEPT !.isExporting = "pdf", !.started = @ \cup {"pdf"},
                          !.inflight = @ \cup {"pdf"}]
  /\ UNCHANGED <<sessionVars, last, pptx, arg, ret, stepper>>

\* toPng resolves: the link is made and clicked
PngRendered ==
  /\ dash.png = "rendering"
  /\ dash' = [dash EXCEPT !.png = "done"]
  /\ UNCHANGED <<sessionVars, last, pdf, pptx, arg, ret, stepper>>

\* toPng rejects: 'Failed to export PNG. Please try again.'
PngRenderFails ==
  /\ dash.png = "rendering"
  /\ dash' = [dash EXCEPT !.png = "failed"]
  /\ UNCHANGED <<sessionVars, last, pdf, pptx, arg, ret, stepper>>

\* the await of handleExport(format) settles: the catch if the export threw,
\* then finally setIsExporting(null)
HandleExportSettles(format) ==
  /\ format \in dash.inflight
  /\ RunOver(dash, pdf, pptx, format)
  /\ LET d1 == IF RunOf(dash, pdf, pptx, format) = "failed"
               THEN ExportCatch(dash, format) ELSE dash
     IN dash' = [d1 EXCEPT !.isExporting = "null", !.inflight = @ \ {format}]
  /\ UNCHANGED <<sessionVars, last, pdf, pptx, arg, ret, stepper>>

\* setActiveTab(tab.id)
SetActiveTab(tab) ==
  /\ ~dash.crashed /\ MicrotasksDone(dash, pdf, pptx)
  /\ dash.aiOutput.generated
  /\ tab # dash.activeTab
  /\ dash' = [dash EXCEPT !.activeTab = tab]
  /\ UNCHANGED <<sessionVars, last, pdf, pptx, arg, ret, stepper>>

\* generateImageMeta.length, read as existingFiles.length
GenerateImageMetaArity == 2

RECURSIVE DashboardLoop(_, _, _)
\* the for loop of processAndUploadFiles as handleFileUpload calls it:
\* onProgress is the projectContext object, so onProgress?.(fileId, 10, true)
\* throws a TypeError inside the try and the catch records the file as failed
DashboardLoop(files, i, errors) ==
  IF i > Len(files) THEN errors
  ELSE LET file == files[i]
           validation == ValidateImageFile(file)
       IN IF ~validation.isValid
          THEN DashboardLoop(files, i + 1, Append(errors, validation.error))
          ELSE DashboardLoop(files, i + 1,
                             Append(errors, Message("", file.name, ": Failed to process image")))

\* processAndUploadFiles(files, userId, projectId, generateImageMeta, projectContext):
\* the errors it collects; onError and onComplete are undefined, nothing is returned
DashboardProcess(files) ==
  IF GenerateImageMetaArity + Len(files) > MaxFiles THEN <<>>
  ELSE DashboardLoop(files, 1, <<>>)

DashboardBatches ==
  { <<FileGood>>, <<FileHalfway, FileExeName>>, [k \in 1..(MaxFiles - 1) |-> FileGood] }

\* handleFileUpload(files) up to its await
HandleFileUpload(files) ==
  /\ ~dash.crashed /\ MicrotasksDone(dash, pdf, pptx)
  /\ dash.upload.pc = "idle"
  /\ blobs' = EffectCleanup(dash.mediaFiles.list, blobs)
  /\ dash' = [dash EXCEPT !.upload = [pc |-> "awaiting", files |-> files,
                                      errors |-> DashboardProcess(files)]]
  /\ UNCHANGED <<host, cloud, now, formData, mediaFiles, mounted, calls, shown, layout,
                 last, pdf, pptx, arg, ret, stepper>>

\* the await resolves with undefined: setMediaFiles(processedFiles); the next
\* render reads mediaFiles.length and throws
HandleFileUploadReturns ==
  /\ dash.upload.pc = "awaiting"
  /\ dash' = [dash EXCEPT !.upload.pc = "finished", !.mediaFiles = Undefined,
                          !.crashed = TRUE]
  /\ UNCHANGED <<sessionVars, last, pdf, pptx, arg, ret, stepper>>

(***************************************************************************)
(* SpecDashboard: a dashboard with a generated project and a media list.   *)
(***************************************************************************)
InitDashboard ==
  /\ SessionIdle
  /\ last = [op |-> "none"]
  /\ HarnessIdle
  /\ ExportIdle
  /\ stepper = StepperIdle
  /\ \E report \in ProjectInputs, n \in 0..MaxDashboardMedia :
       dash = [DashIdle EXCEPT !.aiOutput = [generated |-> TRUE, report |-> report],
                               !.mediaFiles = Defined(DeckMedia(n))]

NextDashboard ==
  \/ \E format \in Formats : HandleExport(format)
  \/ HandleExportPdfThrows
  \/ PdfFigureDrawn
  \/ PdfFigureUnreadable
  \/ PdfFigureNotEmbedded
  \/ PptxImageAdded
  \/ PptxImageUnreadable
  \/ PptxImageNotEmbedded
  \/ PptxWritten
  \/ PptxWriteFails
  \/ PngRendered
  \/ PngRenderFails
  \/ \E format \in Formats : HandleExportSettles(format)
  \/ \E tab \in DashboardTabs : SetActiveTab(tab)
  \/ \E files \in DashboardBatches : HandleFileUpload(files)
  \/ HandleFileUploadReturns

SpecDashboard == InitDashboard /\ [][NextDashboard]_vars

\* the file a run has produced: pdf.save, pptx.writeFile, link.click
Saved(d, p, x, format) ==
  CASE format = "pdf" -> p.saved
    [] format = "pptx" -> x.pc = "done"
    [] OTHER -> d.png = "done"

AlertsFor(d, format) == SelectSeq(d.alerts, LAMBDA m : m = ExportAlert(format))

\* an export that has thrown and whose handleExport has finished
ExportFailed(format) ==
  /\ format \in dash.started
  /\ format \notin dash.inflight
  /\ RunOf(dash, pdf, pptx, format) = "failed"

\* C24: an export that fails produces no file; handleExport shows one alert
\* for it, and none for an export that has not failed or is still awaited;
\* exportToPNG without its element fails before rendering; no step of an
\* export changes the media list or the generated project.
C24_FailedExportOneAlertNoFile ==
  /\ [](\A format \in Formats :
          /\ RunOf(dash, pdf, pptx, format) = "failed" => ~Saved(dash, pdf, pptx, format)
          /\ Len(AlertsFor(dash, format)) = IF ExportFailed(format) THEN 1 ELSE 0)
  /\ [][/\ (dash.png = "idle" /\ dash'.png # "idle" /\ ~GalleryPresent(dash))
             => dash'.png = "failed"
        /\ (dash'.inflight # dash.inflight \/ pdf' # pdf \/ pptx' # pptx
              \/ dash'.png # dash.png)
             => (dash'.mediaFiles = dash.mediaFiles /\ dash'.aiOutput = dash.aiOutput)
       ]_vars

\* the PNG export was started in a tab without the gallery and has been
\* handled, and the PPTX export has failed at writeFile and been handled
C24_Witness ==
  /\ ExportFailed("png") /\ dash.activeTab # "report"
  /\ ExportFailed("pptx")
  /\ Len(dash.alerts) = 2

\* C29: while handleExport(F) has not reached its finally, isExporting is F;
\* with no export in flight it is null.
C29_IsExportingTracksExport ==
  /\ \A format \in dash.inflight :
       ~RunOver(dash, pdf, pptx, format) => dash.isExporting = format
  /\ dash.inflight = {} => dash.isExporting = "null"

\* PPTX is awaiting writeFile, without media, and isExporting is already null
\* again because a PDF export started and finished meanwhile
C29_WitnessOverlap ==
  /\ Len(dash.mediaFiles.list) = 0
  /\ dash.inflight = {"pptx"} /\ pptx.pc = "writing"
  /\ "pdf" \in dash.started
  /\ dash.isExporting = "null"

\* the files of a batch that pass validateImageFile
Validated(files) == SelectSeq(files, LAMBDA file : ValidateImageFile(file).isValid)

\* C30: when handleFileUpload has finished, mediaFiles is a list and holds an
\* entry for every file of the batch that passed validation.
C30_UploadLeavesList ==
  dash.upload.pc = "finished" =>
    /\ dash.mediaFiles.defined
    /\ \A k \in DOMAIN Validated(dash.upload.files) :
         \E e \in Range(dash.mediaFiles.list) :
           e.file.name = Validated(dash.upload.files)[k].name

\* one valid file was given; mediaFiles is undefined afterwards
C30_WitnessUndefined ==
  /\ dash.upload.pc = "finished"
  /\ dash.upload.files = <<FileGood>>
  /\ ~dash.mediaFiles.defined

(***************************************************************************)
(* The gallery handlers and the list.                                      *)
(***************************************************************************)
\* getCaption: file.caption || file.file.name.replace(/\.[^/.]+$/, "")
GetCaption(file) == OrElse(file.caption, StripExtension(file.file.name))

\* the section each entry is shown after, as the gallery computes it in render
Placements(files) == [k \in 1..Len(files) |-> GetSectionPlacement(GetCaption(files[k]))]

\* after is before without its k-th entry
RemovedAt(before, after, k) == after = RemoveAt(before, k)

\* after is before with the alt text of its k-th entry set to text
AltSetAt(before, after, k, text) == after = [before EXCEPT ![k].alt = text]

C25_WitnessRemoved ==
  /\ last.op = "removeFile"
  /\ Len(mediaFiles) = 2
  /\ \A k \in 1..2 : mediaFiles[k].id # last.id

(***************************************************************************)
(* ProjectStepper: the three steps, the form of step 1 and onGenerate.     *)
(* stepper.generated keeps the arguments of every call of onGenerate.      *)
(***************************************************************************)
MaxGenerate == 1
MinIdeaLength == 20

WhiteSpace == {" ", "\t", "\n"}

RECURSIVE TrimStart(_)
TrimStart(s) ==
  IF Len(s) > 0 /\ Head(s) \in WhiteSpace THEN TrimStart(Tail(s)) ELSE s

RECURSIVE TrimEnd(_)
TrimEnd(s) ==
  IF Len(s) > 0 /\ s[Len(s)] \in WhiteSpace THEN TrimEnd(SubSeq(s, 1, Len(s) - 1)) ELSE s

\* String.prototype.trim
Trim(s) == TrimEnd(TrimStart(s))

\* the idea is measured as it was typed
ValidateStepUntrimmed(form, step) ==
  CASE step = 1 -> Len(form.projectIdea) >= MinIdeaLength /\ Trim(form.subject) # <<>>
    [] step = 2 -> TRUE
    [] step = 3 -> Len(form.projectIdea) >= MinIdeaLength /\ Trim(form.subject) # <<>>
    [] OTHER -> FALSE

ValidateStep(form, step) ==
  CASE step = 1 -> Len(Trim(form.projectIdea)) >= MinIdeaLength /\ Trim(form.subject) # <<>>
    [] step = 2 -> TRUE
    [] step = 3 -> Len(Trim(form.projectIdea)) >= MinIdeaLength /\ Trim(form.subject) # <<>>
    [] OTHER -> FALSE

StepperShown == host = "stepper" /\ mounted

\* handleInputChange, from a field of step 1
HandleInputChange(name, value) ==
  /\ StepperShown /\ stepper.currentStep = 1
  /\ formData[name] # value
  /\ formData' = [formData EXCEPT ![name] = value]
  /\ UNCHANGED <<host, cloud, now, mediaFiles, mounted, blobs, calls, shown, layout, last,
                 pdf, pptx, arg, ret, stepper, dash>>

HandleNext ==
  /\ StepperShown
  /\ stepper.currentStep < 3 /\ ValidateStep(formData, stepper.currentStep)
  /\ stepper' = [stepper EXCEPT !.currentStep = @ + 1]
  /\ UNCHANGED <<sessionVars, last, pdf, pptx, arg, ret, dash>>

HandleBack ==
  /\ StepperShown
  /\ stepper.currentStep > 1
  /\ stepper' = [stepper EXCEPT !.currentStep = @ - 1]
  /\ UNCHANGED <<sessionVars, last, pdf, pptx, arg, ret, dash>>

HandleStepClick(step) ==
  /\ StepperShown
  /\ step # stepper.currentStep
  /\ \/ step <= stepper.currentStep
     \/ step = stepper.currentStep + 1 /\ ValidateStep(formData, stepper.currentStep)
  /\ stepper' = [stepper EXCEPT !.currentStep = step]
  /\ UNCHANGED <<sessionVars, last, pdf, pptx, arg, ret, dash>>

\* handleKeyDown with the target inside the stepper
HandleKeyDown(key) ==
  /\ StepperShown
  /\ \/ /\ key = "ArrowLeft" /\ stepper.currentStep > 1
        /\ stepper' = [stepper EXCEPT !.currentStep = @ - 1]
     \/ /\ key = "ArrowRight" /\ stepper.currentStep < 3
        /\ stepper' = [stepper EXCEPT !.currentStep = @ + 1]
  /\ UNCHANGED <<sessionVars, last, pdf, pptx, arg, ret, dash>>

\* handleGenerate, from the button of step 3
HandleGenerate ==
  /\ StepperShown /\ stepper.currentStep = 3
  /\ Len(stepper.generated) < MaxGenerate
  /\ ValidateStep(formData, 1)
  /\ stepper' = [stepper EXCEPT !.generated =
                   Append(@, [formData |-> formData, mediaFiles |-> mediaFiles])]
  /\ UNCHANGED <<sessionVars, last, pdf, pptx, arg, ret, dash>>

(***************************************************************************)
(* SpecStepper: a stepper on step 1 with an empty form; its list is empty  *)
(* or holds one entry of an earlier intake, which the gallery of step 2    *)
(* can remove.                                                             *)
(***************************************************************************)
Typed(n) == [k \in 1..n |-> "x"]

IdeaInputs ==
  { <<>>, Typed(MinIdeaLength - 1), Typed(MinIdeaLength),
    <<" ">> \o Typed(MinIdeaLength - 2) \o <<" ", " ">>,
    <<" ">> \o Typed(MinIdeaLength) \o <<"\n">> }

SubjectInputs == { <<>>, <<" ">>, <<"B","i","o","l","o","g","y">> }

InitStepper ==
  /\ host = "stepper"
  /\ cloud = TRUE
  /\ now = 0
  /\ formData = [projectIdea |-> <<>>, subject |-> <<>>, steps |-> <<>>]
  /\ \E n \in 0..1 :
       /\ mediaFiles = ExistingFiles(host, cloud, n)
       /\ blobs = ExistingBlobs(host, cloud, n)
  /\ mounted = TRUE
  /\ calls = <<>>
  /\ shown = NoErrors
  /\ layout = LayoutInit
  /\ last = [op |-> "none"]
  /\ ExportIdle /\ HarnessIdle
  /\ stepper = StepperIdle
  /\ dash = DashIdle

NextStepper ==
  \/ \E value \in IdeaInputs : HandleInputChange("projectIdea", value)
  \/ \E value \in SubjectInputs : HandleInputChange("subject", value)
  \/ HandleNext
  \/ HandleBack
  \/ \E step \in 1..3 : HandleStepClick(step)
  \/ \E key \in {"ArrowLeft", "ArrowRight"} : HandleKeyDown(key)
  \/ HandleGenerate
  \/ \E id \in Ids(mediaFiles) : stepper.currentStep = 2 /\ RemoveFile(id)

SpecStepper == InitStepper /\ [][NextStepper]_vars

\* C26: currentStep is 1, 2 or 3, and every step to a higher number goes up by
\* one and is taken only if validateStep holds for the step that is left.
C26_StepsForwardOnlyWhenValid ==
  /\ [](stepper.currentStep \in {1, 2, 3})
  /\ [][stepper'.currentStep > stepper.currentStep =>
          /\ stepper'.currentStep = stepper.currentStep + 1
          /\ ValidateStep(formData, stepper.currentStep)
       ]_vars

\* step 2 is shown while the form is still empty
C26_WitnessStepTwoEmptyForm ==
  /\ stepper.currentStep = 2
  /\ formData.projectIdea = <<>> /\ formData.subject = <<>>

\* C27: every call of onGenerate is made with an idea of at least 20
\* characters after trimming and a subject that is not empty, and is given
\* the form data and the media list of that moment.
C27_GenerateOnlyWhenValid ==
  [][stepper'.generated # stepper.generated =>
       /\ Len(Trim(formData.projectIdea)) >= MinIdeaLength
       /\ Trim(formData.subject) # <<>>
       /\ stepper'.generated =
            Append(stepper.generated, [formData |-> formData, mediaFiles |-> mediaFiles])
    ]_vars

\* onGenerate was called with a padded idea and an emptied media list
C27_Witness ==
  /\ Len(stepper.generated) = 1
  /\ Len(stepper.generated[1].formData.projectIdea) > MinIdeaLength
  /\ stepper.generated[1].mediaFiles = <<>>
  /\ last.op = "removeFile"

\* step 3 was reached by the keyboard with a form that is not valid: the
\* button does not call onGenerate
C27_WitnessBlocked ==
  /\ stepper.currentStep = 3
  /\ ~ValidateStep(formData, 1)
  /\ stepper.generated = <<>>

(***************************************************************************)
(* Identifiers.                                                            *)
(***************************************************************************)
\* C28: the ids of the entries of a media list are pairwise distinct.
C28_IdsDistinct ==
  \A j, k \in DOMAIN mediaFiles : j # k => mediaFiles[j].id # mediaFiles[k].id

\* two batches read the clock in the same millisecond: their first files get
\* the same id and both entries are in the list
C28_WitnessSameId ==
  /\ Len(calls) = 2
  /\ \E j, k \in DOMAIN mediaFiles :
       /\ j < k
       /\ mediaFiles[j].id = mediaFiles[k].id
       /\ mediaFiles[j].id = FileId(0, 0)

=============================================================================
